---- MODULE Spec2Model ----
(***************************************************************************)
(* Echo-F generation-to-delivery pipeline.                                 *)
(*                                                                         *)
(*   generationController.generateCode : create record -> provider call -> *)
(*       validateCode -> (failed | deploy -> completed) -> HTTP response   *)
(*   validationService.validateCode    : staging, stack check, scan        *)
(*   llmService.generateCode           : backend choice, single-file parse *)
(*   deploymentService.deploy          : preview / deploy / download       *)
(*                                                                         *)
(* Strings are the program's strings: file names, messages and contents    *)
(* are compared, searched and joined as the code does it.                  *)
(***************************************************************************)
EXTENDS Integers, Sequences, FiniteSets, TLC

\* ------------------------------------------------------------------ bounds
\* Concurrent generateCode invocations.
NumInv == 2
\* Longest file list handed to a direct validateCode call.
MaxFiles == 2
\* Distinct values Date.now()/Math.random() can take in one run.
NumTokens == 1
\* Concurrent validateCode calls on one staging root.
NumCalls == 2
\* Last millisecond Date.now() reaches in a run; the clock starts at 1.
MaxClock == 2
\* the stored records of a queried collection, and the largest page asked for
MaxRecords == 3
MaxPage == 3
\* the connected sockets, the share-project events in flight, and the join and
\* leave events one socket sends
NumSockets == 2
NumShares == 2
MaxEvents == 2
\* the instants of the auth controller's clock and the successful resets recorded
MaxTime == 3
MaxResets == 2

Invocations == 1..NumInv
Tokens == 1..NumTokens
Calls == 1..NumCalls

\* undefined / null / absent document field
NULL == "<undefined>"

\* ----------------------------------------------------------- string helpers
\* String.prototype.endsWith
EndsWith(s, suf) ==
  /\ Len(s) >= Len(suf)
  /\ SubSeq(s, Len(s) - Len(suf) + 1, Len(s)) = suf

\* String.prototype.startsWith
StartsWith(s, pre) ==
  /\ Len(s) >= Len(pre)
  /\ SubSeq(s, 1, Len(pre)) = pre

\* String.prototype.includes
Includes(s, pat) ==
  \E i \in 1..(Len(s) - Len(pat) + 1) : SubSeq(s, i, i + Len(pat) - 1) = pat

\* position of the last "/" of a path, 0 when there is none
LastSlash(p) ==
  LET at == {i \in 1..Len(p) : SubSeq(p, i, i) = "/"}
  IN  IF at = {} THEN 0 ELSE CHOOSE i \in at : \A j \in at : j <= i

\* path.basename
Basename(p) == SubSeq(p, LastSlash(p) + 1, Len(p))

\* path.join(dir, name) for a directory relative to the staging root ("" is the root)
PathJoin(dir, name) == IF dir = "" THEN name ELSE dir \o "/" \o name

\* Array.prototype.join(', ')
RECURSIVE Join(_)
Join(msgs) ==
  IF msgs = <<>> THEN ""
  ELSE IF Len(msgs) = 1 THEN msgs[1]
  ELSE msgs[1] \o ", " \o Join(Tail(msgs))

\* ------------------------------------------------------------- the stacks
JsFamilyStacks == {"react", "vue", "angular", "node", "react-native", "electron"}
Stacks == JsFamilyStacks \cup {"python", "html-css-js", "node-react-fullstack"}
Outputs == {"preview", "deploy", "download"}

\* --------------------------------------------------------- file contents
SrcClean == "const a = 1;"
SrcBroken == "function {"
SrcEval == "x = eval(y)"
SrcInnerHTML == "el.innerHTML = t"
SrcDocWrite == "document.write(s)"
SrcSecret == "password = 'hunter2'"
HtmlFull == "<!DOCTYPE html><html><head></head><body></body></html>"
HtmlBare == "<p>document.write</p>"
PkgFull == "{\"name\":\"a\",\"version\":\"1\"}"
PkgNoVersion == "{\"name\":\"a\"}"
PkgBroken == "{"

\* fs.readJson: the parsed document, or a throw on text that is no JSON
ReadJson(text) ==
  CASE text = PkgFull -> [threw |-> FALSE, name |-> "a", version |-> "1"]
    [] text = PkgNoVersion -> [threw |-> FALSE, name |-> "a", version |-> NULL]
    [] OTHER -> [threw |-> TRUE, name |-> NULL, version |-> NULL]

\* `node --check file` / `python -m py_compile file`: exit status by content
SyntaxCheckFails(text) == text \in {SrcBroken, PkgBroken}

\* the three secretPatterns regular expressions, by index
SecretPatternMatches(k, text) == k = 1 /\ text = SrcSecret

\* ------------------------------------------------------ the staging area
\* Directory listing order of fs.readdir, directories walked in place.
ListingOrder ==
  << "App.js", "App.jsx", "App.vue", "app.component.ts", "app.py",
     "backend/package.json", "backend/server.js",
     "frontend/App.jsx", "frontend/package.json",
     "index.html", "main.js", "package.json", "server.js" >>

\* The files written under tempDir: path -> content, a later file of the same
\* name overwriting an earlier one.
Materialize(files) ==
  [p \in {files[i].filename : i \in DOMAIN files} |->
     LET last == CHOOSE i \in DOMAIN files :
                   /\ files[i].filename = p
                   /\ \A j \in DOMAIN files : files[j].filename = p => j <= i
     IN  files[last].content]

\* fs.pathExists of a file or of a directory below the staging root
PathExists(fs, p) ==
  \/ p \in DOMAIN fs
  \/ \E q \in DOMAIN fs : StartsWith(q, p \o "/")

\* findFiles(dir, extensions): the files below dir whose name ends with one of
\* the extensions, in listing order.
FindFiles(fs, dir, extensions) ==
  SelectSeq(ListingOrder,
            LAMBDA p : /\ p \in DOMAIN fs
                       /\ (dir = "" \/ StartsWith(p, dir \o "/"))
                       /\ \E ext \in extensions : EndsWith(Basename(p), ext))

\* ------------------------------------------------------ validationService
\* What can go wrong around one validateCode call: at most one of these I/O
\* steps throws.
ValidationFaults == {"none", "ensureDir", "writeFile", "stackReaddir", "scanReaddir", "remove"}

\* error.message of the exception a failing I/O step throws
FaultMessage(fault) == "EIO: " \o fault

EmptyResult == [isValid |-> TRUE, errors |-> <<>>, warnings |-> <<>>, securityIssues |-> <<>>]

PushError(result, msg) == [result EXCEPT !.errors = Append(@, msg)]
PushWarning(result, msg) == [result EXCEPT !.warnings = Append(@, msg)]

\* concatenation of a sequence of sequences
RECURSIVE Flatten(_)
Flatten(ss) == IF ss = <<>> THEN <<>> ELSE Head(ss) \o Flatten(Tail(ss))

\* checkJavaScriptSyntax / checkPythonSyntax on each file of a list: one error
\* entry per file the tool rejects, the remaining files are still checked.
SyntaxErrors(fs, paths) ==
  Flatten([i \in 1..Len(paths) |->
             IF SyntaxCheckFails(fs[paths[i]])
             THEN << "Syntax error in " \o Basename(paths[i]) \o ": SyntaxError" >>
             ELSE << >>])

validateJavaScript(fs, dir, result, fault) ==
  IF ~PathExists(fs, PathJoin(dir, "package.json"))
  THEN PushError(result, "Missing package.json file")
  ELSE
    LET packageJson == ReadJson(fs[PathJoin(dir, "package.json")])
        r1 == IF packageJson.name = NULL \/ packageJson.version = NULL
              THEN PushError(result, "Invalid package.json: missing name or version")
              ELSE result
        jsFiles == FindFiles(fs, dir, {".js", ".jsx", ".ts", ".tsx"})
    IN  IF packageJson.threw
        THEN PushError(result, "JavaScript validation failed: Unexpected end of JSON input")
        ELSE IF fault = "stackReaddir"
        THEN PushError(r1, "JavaScript validation failed: " \o FaultMessage(fault))
        ELSE [r1 EXCEPT !.errors = @ \o SyntaxErrors(fs, jsFiles)]

validatePython(fs, result, fault) ==
  IF fault = "stackReaddir"
  THEN PushError(result, "Python validation failed: " \o FaultMessage(fault))
  ELSE
    LET pyFiles == FindFiles(fs, "", {".py"})
        r1 == [result EXCEPT !.errors = @ \o SyntaxErrors(fs, pyFiles)]
    IN  IF ~PathExists(fs, "requirements.txt")
        THEN PushWarning(r1, "Missing requirements.txt file")
        ELSE r1

\* checkHTMLStructure: the warnings of one file
HtmlWarnings(name, text) ==
     (IF ~Includes(text, "<html>") /\ ~Includes(text, "<!DOCTYPE html>")
      THEN << name \o ": Missing DOCTYPE or html tag" >> ELSE << >>)
  \o (IF ~Includes(text, "<head>") THEN << name \o ": Missing head tag" >> ELSE << >>)
  \o (IF ~Includes(text, "<body>") THEN << name \o ": Missing body tag" >> ELSE << >>)

validateHTML(fs, result, fault) ==
  IF fault = "stackReaddir"
  THEN PushError(result, "HTML validation failed: " \o FaultMessage(fault))
  ELSE
    LET htmlFiles == FindFiles(fs, "", {".html"})
    IN  [result EXCEPT !.warnings = @ \o
           Flatten([i \in 1..Len(htmlFiles) |->
                      HtmlWarnings(Basename(htmlFiles[i]), fs[htmlFiles[i]])])]

\* a full-stack check that gives up at the first subtree that is missing or
\* has errors
validateFullStackStopAtFirst(fs, result, fault) ==
  IF ~PathExists(fs, "frontend")
  THEN PushError(result, "Missing frontend directory for full-stack project")
  ELSE LET r1 == validateJavaScript(fs, "frontend", result, fault)
       IN  IF r1.errors # result.errors THEN r1
           ELSE IF ~PathExists(fs, "backend")
           THEN PushError(r1, "Missing backend directory for full-stack project")
           ELSE validateJavaScript(fs, "backend", r1, fault)

validateFullStack(fs, result, fault) ==
  LET r1 == IF ~PathExists(fs, "frontend")
            THEN PushError(result, "Missing frontend directory for full-stack project")
            ELSE result
      r2 == IF ~PathExists(fs, "backend")
            THEN PushError(r1, "Missing backend directory for full-stack project")
            ELSE r1
      r3 == IF PathExists(fs, "frontend") THEN validateJavaScript(fs, "frontend", r2, fault) ELSE r2
  IN  IF PathExists(fs, "backend") THEN validateJavaScript(fs, "backend", r3, fault) ELSE r3

runStackSpecificValidation(fs, stack, result, fault) ==
  CASE stack \in JsFamilyStacks -> validateJavaScript(fs, "", result, fault)
    [] stack = "python" -> validatePython(fs, result, fault)
    [] stack = "html-css-js" -> validateHTML(fs, result, fault)
    [] stack = "node-react-fullstack" -> validateFullStack(fs, result, fault)
    [] OTHER -> PushWarning(result, "No specific validation available for stack: " \o stack)

\* runSecurityScan: the securityIssues entries of one file, in push order
ScanIssues(name, text) ==
     (IF Includes(text, "eval(")
      THEN << name \o ": Use of eval() detected - security risk" >> ELSE << >>)
  \o (IF Includes(text, "document.write")
      THEN << name \o ": Use of document.write detected - security risk" >> ELSE << >>)
  \o Flatten([k \in 1..3 |->
                IF SecretPatternMatches(k, text)
                THEN << name \o ": Potential hardcoded secret detected" >> ELSE << >>])

\* runSecurityScan: the warnings entries of one file
ScanWarnings(name, text) ==
  IF Includes(text, "innerHTML")
  THEN << name \o ": Use of innerHTML detected - consider using textContent or createElement" >>
  ELSE << >>

runSecurityScan(fs, result, fault) ==
  IF fault = "scanReaddir"
  THEN PushWarning(result, "Security scan failed: " \o FaultMessage(fault))
  ELSE
    LET allFiles == FindFiles(fs, "", {".js", ".ts", ".jsx", ".tsx", ".py", ".html"})
    IN  [result EXCEPT
           !.securityIssues = @ \o Flatten([i \in 1..Len(allFiles) |->
                                  ScanIssues(Basename(allFiles[i]), fs[allFiles[i]])]),
           !.warnings = @ \o Flatten([i \in 1..Len(allFiles) |->
                            ScanWarnings(Basename(allFiles[i]), fs[allFiles[i]])])]

\* a catch block that sets isValid but records no error
ValidationCaughtSilent(result, fault) == [result EXCEPT !.isValid = FALSE]

\* the catch block of validateCode
ValidationCaught(result, fault) ==
  [result EXCEPT !.isValid = FALSE,
                 !.errors = Append(@, "Validation failed: " \o FaultMessage(fault))]

\* a validateCode that scans only what passed the stack-specific check
validateCodeScanIfClean(files, stack, fault) ==
  IF fault = "ensureDir" \/ (fault = "writeFile" /\ files # <<>>)
  THEN ValidationCaught(EmptyResult, fault)
  ELSE
    LET fs == Materialize(files)
        checked == runStackSpecificValidation(fs, stack, EmptyResult, fault)
        scanned == IF checked.errors = << >> THEN runSecurityScan(fs, checked, fault)
                   ELSE checked
    IN  IF fault = "remove" THEN ValidationCaught(scanned, fault) ELSE scanned

\* validateCode(files, stack) under one fault
validateCode(files, stack, fault) ==
  IF fault = "ensureDir" \/ (fault = "writeFile" /\ files # <<>>)
  THEN ValidationCaught(EmptyResult, fault)
  ELSE
    LET fs == Materialize(files)
        checked == runStackSpecificValidation(fs, stack, EmptyResult, fault)
        scanned == runSecurityScan(fs, checked, fault)
    IN  IF fault = "remove" THEN ValidationCaught(scanned, fault) ELSE scanned

\* ------------------------------------------------------------- llmService
\* String.prototype.trim (blank, tab and newline as white space)
IsSpace(c) == c \in {" ", "\t", "\n"}

RECURSIVE TrimLeft(_)
TrimLeft(s) ==
  IF Len(s) > 0 /\ IsSpace(SubSeq(s, 1, 1)) THEN TrimLeft(SubSeq(s, 2, Len(s))) ELSE s

RECURSIVE TrimRight(_)
TrimRight(s) ==
  IF Len(s) > 0 /\ IsSpace(SubSeq(s, Len(s), Len(s)))
  THEN TrimRight(SubSeq(s, 1, Len(s) - 1)) ELSE s

Trim(s) == TrimLeft(TrimRight(s))

getLanguageFromStack(stack) ==
  CASE stack = "angular" -> "typescript"
    [] stack = "python" -> "python"
    [] stack = "html-css-js" -> "html"
    [] OTHER -> "javascript"

getDefaultFilename(stack) ==
  CASE stack = "react" -> "App.jsx"
    [] stack = "vue" -> "App.vue"
    [] stack = "angular" -> "app.component.ts"
    [] stack = "node" -> "server.js"
    [] stack = "python" -> "app.py"
    [] stack = "html-css-js" -> "index.html"
    [] stack = "react-native" -> "App.js"
    [] stack = "electron" -> "main.js"
    [] stack = "node-react-fullstack" -> "package.json"
    [] OTHER -> "app.js"

\* generateDocumentation / generateInstallationScript: static per-stack texts
generateDocumentation(stack) == "# Generated by EchoF AI: " \o stack
generateInstallationScript(stack) ==
  IF stack \in Stacks THEN "#!/bin/bash " \o stack
  ELSE "# Installation script not available for this stack"

\* parseGeneratedContent without its files.push(...)
ParsedFilesNoPush(content, stack) == << >>

\* the files of parseGeneratedContent: the whole response as one file
ParsedFiles(content, stack) ==
  << [filename |-> getDefaultFilename(stack),
      content |-> Trim(content),
      language |-> getLanguageFromStack(stack)] >>

\* a parser that puts a manifest next to the main file
parseGeneratedContentWithManifest(content, stack) ==
  [files |-> << [filename |-> "package.json", content |-> PkgFull, language |-> "json"] >>
             \o ParsedFiles(content, stack),
   documentation |-> generateDocumentation(stack),
   installationScript |-> generateInstallationScript(stack)]

parseGeneratedContent(content, stack) ==
  [files |-> ParsedFiles(content, stack),
   documentation |-> generateDocumentation(stack),
   installationScript |-> generateInstallationScript(stack)]

\* What a backend can answer: a transport/API failure, no content, or a text.
ReplyTexts == {"  ", " const a = 1;\n", SrcEval, SrcBroken}
BackendReplies ==
  {[kind |-> "error", text |-> NULL], [kind |-> "content", text |-> NULL],
   [kind |-> "content", text |-> ""]}
  \cup {[kind |-> "content", text |-> t] : t \in ReplyTexts}

Returned(v) == [threw |-> FALSE, value |-> v, message |-> NULL]
Thrown(msg) == [threw |-> TRUE, value |-> NULL, message |-> msg]

\* generateWithOpenAI / generateWithGemini on one backend reply
generateWithBackend(reply, stack) ==
  IF reply.kind = "error" THEN Thrown("backend request failed")
  ELSE IF reply.text = NULL \/ reply.text = "" THEN Thrown("No content generated")
  ELSE Returned(parseGeneratedContent(reply.text, stack))

\* the backend LLMService.generateCode calls: OpenAI first, Gemini otherwise
BackendUsed(hasOpenai, hasGemini) ==
  IF hasOpenai THEN "openai" ELSE IF hasGemini THEN "gemini" ELSE "none"

\* one entry of an invocation's call log: the service and whether it threw
Call(service, threw) == [service |-> service, threw |-> threw]

\* the backend calls of a generateCode that falls back to Gemini when the
\* OpenAI call fails
BackendCallsWithFallback(hasOpenai, hasGemini, stack, reply) ==
  IF hasOpenai
  THEN << Call("openai", generateWithBackend(reply, stack).threw) >>
       \o (IF generateWithBackend(reply, stack).threw /\ hasGemini
           THEN << Call("gemini", FALSE) >> ELSE << >>)
  ELSE IF hasGemini THEN << Call("gemini", generateWithBackend(reply, stack).threw) >>
  ELSE << >>

\* the backend calls LLMService.generateCode makes, in order
BackendCalls(hasOpenai, hasGemini, stack, reply) ==
  IF hasOpenai THEN << Call("openai", generateWithBackend(reply, stack).threw) >>
  ELSE IF hasGemini THEN << Call("gemini", generateWithBackend(reply, stack).threw) >>
  ELSE << >>

\* a generateCode that answers a backend failure with an empty file
llmGenerateCodeSwallow(hasOpenai, hasGemini, stack, reply) ==
  LET inner == IF BackendUsed(hasOpenai, hasGemini) = "none"
               THEN Thrown("No AI provider configured")
               ELSE generateWithBackend(reply, stack)
  IN  IF inner.threw THEN Returned(parseGeneratedContent("", stack)) ELSE inner

\* LLMService.generateCode: every failure is rethrown as one message
llmGenerateCode(hasOpenai, hasGemini, stack, reply) ==
  LET inner == IF BackendUsed(hasOpenai, hasGemini) = "none"
               THEN Thrown("No AI provider configured")
               ELSE generateWithBackend(reply, stack)
  IN  IF inner.threw THEN Thrown("Failed to generate code") ELSE inner

\* ------------------------------------------------------ deploymentService
DeployFaults == {"none", "ensureDir", "writeFile", "buildImage", "startContainer", "archive"}

NoDelivery == [deploymentUrl |-> NULL, downloadUrl |-> NULL, previewUrl |-> NULL,
               gitCommitHash |-> NULL]

\* `${kind}-${Date.now()}-${Math.random()...}`
DeliveryId(kind, token) == kind \o "-" \o ToString(token)

generateCommitHash(token) == "commit" \o ToString(token)

\* createPreview also filling deploymentUrl
createPreviewBothUrls(files, stack, idToken, hashToken) ==
  Returned([NoDelivery EXCEPT
              !.previewUrl = "https://preview.echo-f.com/" \o DeliveryId("preview", idToken),
              !.deploymentUrl = "https://" \o DeliveryId("preview", idToken) \o ".echo-f.com",
              !.gitCommitHash = generateCommitHash(hashToken)])

createPreview(files, stack, idToken, hashToken) ==
  Returned([NoDelivery EXCEPT
              !.previewUrl = "https://preview.echo-f.com/" \o DeliveryId("preview", idToken),
              !.gitCommitHash = generateCommitHash(hashToken)])

deployToProduction(files, stack, fault, idToken, hashToken) ==
  IF fault \in {"ensureDir", "writeFile", "buildImage", "startContainer"}
  THEN Thrown("Deployment failed")
  ELSE Returned([NoDelivery EXCEPT
                   !.deploymentUrl = "https://" \o DeliveryId("deploy", idToken) \o ".echo-f.com",
                   !.gitCommitHash = generateCommitHash(hashToken)])

createDownload(files, stack, fault, idToken, hashToken) ==
  IF fault = "ensureDir" THEN Thrown("Download creation failed")
  ELSE IF fault = "archive" THEN Thrown(FaultMessage(fault))
  ELSE Returned([NoDelivery EXCEPT
                   !.downloadUrl = "https://downloads.echo-f.com/"
                                     \o DeliveryId("download", idToken) \o ".zip",
                   !.gitCommitHash = generateCommitHash(hashToken)])

\* DeploymentService.deploy
deploy(stack, output, files, fault, idToken, hashToken) ==
  CASE output = "preview" -> createPreview(files, stack, idToken, hashToken)
    [] output = "deploy" -> deployToProduction(files, stack, fault, idToken, hashToken)
    [] output = "download" -> createDownload(files, stack, fault, idToken, hashToken)
    [] OTHER -> Thrown("Unsupported output type: " \o output)

\* ------------------------------------------------------------ the state
VARIABLES
  openai,            \* LLMService.openai is configured
  gemini,            \* LLMService.gemini is configured
  db,                \* the Generation collection: _id -> document
  pc,                \* position of each generateCode invocation
  request,           \* req.body of each invocation: stack and output
  generation,        \* _id of the record the invocation created
  generationResult,  \* what llmService.generateCode returned
  validationResult,  \* what validationService.validateCode returned
  deploymentResult,  \* what deploymentService.deploy returned
  deployCalls,       \* calls of deploymentService.deploy by the invocation
  responses,         \* the HTTP responses the invocation sent
  vFiles,            \* a direct validateCode call: its files,
  vStack,            \*   its stack,
  vResult,           \*   the result it returned,
  vPc,               \*   whether it has returned,
  vFault,            \*   and the I/O step that failed during it
  calls,             \* the service calls each invocation made, in order
  now,               \* Date.now()
  tempValidation,    \* the directories below temp-validation: name -> files
  validation,        \* each running validateCode call: position and locals
  deliveryCall,          \* a deployToProduction / createDownload call, step by step
  query,             \* a getUserGenerations / getGenerationById request
  llmCall,           \* a direct LLMService.generateCode call
  collab,            \* the sockets, rooms and projects of the socket handlers
  auth               \* the users and reset requests of the auth controller

pipelineVars == << openai, gemini, db, pc, request, generation, generationResult,
                   validationResult, deploymentResult, deployCalls, responses, calls >>
stagingVars == << now, tempValidation, validation >>
moduleVars == << llmCall, collab, auth >>
serviceVars == << deliveryCall, query, moduleVars >>
callVars == << vFiles, vStack, vResult, vPc, vFault, stagingVars, serviceVars >>
vars == << openai, gemini, db, pc, request, generation, generationResult,
           validationResult, deploymentResult, deployCalls, responses, calls,
           vFiles, vStack, vResult, vPc, vFault, now, tempValidation, validation,
           deliveryCall, query, llmCall, collab, auth >>

\* ------------------------------------------------------ Generation model
\* Generation.create without a status: the schema default
CreatedStatusDefault == "pending"

\* an _id that every new document shares
NewObjectIdShared(i) == "gen1"

\* the _id a new document gets: unique, here named after the creating invocation
NewObjectId(i) == "gen" \o ToString(i)

\* the collection before any insert
EmptyCollection == [id \in {} |-> NULL]

\* the status generateCode passes to Generation.create
CreatedStatus == "generating"

\* the document Generation.create stores: schema defaults for what is not given
NewGeneration(stack, output) ==
  [stack |-> stack, output |-> output, status |-> CreatedStatus,
   generatedFiles |-> <<>>,
   deploymentUrl |-> NULL, downloadUrl |-> NULL, previewUrl |-> NULL,
   gitCommitHash |-> NULL, installationScript |-> NULL, documentation |-> NULL,
   error |-> NULL]

\* a defined value overwrites the field, undefined leaves it alone
SetIfDefined(old, new) == IF new = NULL THEN old ELSE new

\* the failure update without its error field
FailedUpdateNoError(doc, result) == [doc EXCEPT !.status = "failed"]

\* the update of the validation-failure path
FailedUpdate(doc, result) ==
  [doc EXCEPT !.status = "failed", !.error = Join(result.errors)]

\* the update after a successful delivery
CompletedUpdate(doc, genResult, delivery) ==
  [doc EXCEPT !.generatedFiles = genResult.files,
              !.deploymentUrl = SetIfDefined(@, delivery.deploymentUrl),
              !.downloadUrl = SetIfDefined(@, delivery.downloadUrl),
              !.previewUrl = SetIfDefined(@, delivery.previewUrl),
              !.gitCommitHash = SetIfDefined(@, delivery.gitCommitHash),
              !.installationScript = SetIfDefined(@, genResult.installationScript),
              !.documentation = SetIfDefined(@, genResult.documentation),
              !.status = "completed"]

\* ----------------------------------------------------------- generateCode
\* a local that is not assigned yet, and one that holds v
None == << >>
Some(v) == << v >>
Val(local) == local[1]

\* a 500 response that passes the message of the thrown error on
ServerErrorWithCause == [status |-> 500, error |-> "Deployment failed", details |-> NULL]

ServerError == [status |-> 500, error |-> "Code generation failed", details |-> NULL]

\* the locals of invocation i after a step that leaves it at `next`: they are
\* gone once generateCode has returned
LocalsAt(i, next, genResult, valResult, depResult) ==
  /\ generationResult' = [generationResult EXCEPT ![i] = IF next = "done" THEN None ELSE genResult]
  /\ validationResult' = [validationResult EXCEPT ![i] = IF next = "done" THEN None ELSE valResult]
  /\ deploymentResult' = [deploymentResult EXCEPT ![i] = IF next = "done" THEN None ELSE depResult]

\* invocation i moves on to `next`, its locals as they are
Goto(i, next) ==
  /\ pc' = [pc EXCEPT ![i] = next]
  /\ LocalsAt(i, next, generationResult[i], validationResult[i], deploymentResult[i])

\* the catch block: one generic 500, and generateCode returns
Catch(i) ==
  /\ responses' = [responses EXCEPT ![i] = Append(@, ServerError)]
  /\ Goto(i, "done")

\* a controller that also treats security findings as fatal
AfterValidationStrict(result) ==
  IF ~result.isValid \/ result.securityIssues # << >> THEN "fail_update" ELSE "deploy"

\* where generateCode goes after validateCode returned
AfterValidation(result) == IF ~result.isValid THEN "fail_update" ELSE "deploy"

\* the 400 branch without its return: control falls through to the delivery
AfterInvalidResponseFallThrough == "deploy"

\* where generateCode goes after the 400 response: it returns
AfterInvalidResponse == "done"

\* Generation.create({user, prompt, stack, output, status})
CreateRecord(i, requests) ==
  /\ pc[i] = "idle"
  /\ \E req \in requests, dbFails \in BOOLEAN :
       /\ request' = [request EXCEPT ![i] = req]
       /\ IF dbFails
          THEN /\ Catch(i)
               /\ UNCHANGED << db, generation >>
          ELSE /\ db' = db @@ (NewObjectId(i) :> NewGeneration(req.stack, req.output))
               /\ generation' = [generation EXCEPT ![i] = NewObjectId(i)]
               /\ Goto(i, "created")
               /\ UNCHANGED responses
  /\ UNCHANGED << openai, gemini, deployCalls, calls, callVars >>

\* llmService.generateCode(prompt, stack, output)
CallProvider(i, replies) ==
  /\ pc[i] = "created"
  /\ \E reply \in replies :
       LET r == llmGenerateCode(openai, gemini, request[i].stack, reply)
       IN  /\ calls' = [calls EXCEPT ![i] =
                          @ \o BackendCalls(openai, gemini, request[i].stack, reply)
                            \o << Call("llmService.generateCode", r.threw) >>]
           /\ IF r.threw
              THEN Catch(i)
              ELSE /\ pc' = [pc EXCEPT ![i] = "generated"]
                   /\ LocalsAt(i, "generated", Some(r.value), None, None)
                   /\ UNCHANGED responses
  /\ UNCHANGED << openai, gemini, db, request, generation, deployCalls, callVars >>

\* validationService.validateCode(generationResult.files, stack)
Validate(i) ==
  /\ pc[i] = "generated"
  /\ \E fault \in ValidationFaults :
       LET r == validateCode(Val(generationResult[i]).files, request[i].stack, fault)
       IN  /\ pc' = [pc EXCEPT ![i] = AfterValidation(r)]
           /\ LocalsAt(i, AfterValidation(r), generationResult[i], Some(r), None)
  /\ calls' = [calls EXCEPT ![i] = Append(@, Call("validationService.validateCode", FALSE))]
  /\ UNCHANGED << openai, gemini, db, request, generation, deployCalls, responses, callVars >>

\* Generation.findByIdAndUpdate(generation._id, {status: 'failed', error})
FailUpdate(i) ==
  /\ pc[i] = "fail_update"
  /\ \E dbFails \in BOOLEAN :
       IF dbFails
       THEN /\ Catch(i)
            /\ UNCHANGED db
       ELSE /\ db' = [db EXCEPT ![generation[i]] = FailedUpdate(@, Val(validationResult[i]))]
            /\ Goto(i, "respond_invalid")
            /\ UNCHANGED responses
  /\ UNCHANGED << openai, gemini, request, generation, deployCalls, calls, callVars >>

\* res.status(400).json({... details: validationResult}); return
RespondInvalid(i) ==
  /\ pc[i] = "respond_invalid"
  /\ responses' = [responses EXCEPT ![i] =
       Append(@, [status |-> 400, error |-> "Generated code validation failed",
                  details |-> Val(validationResult[i])])]
  /\ Goto(i, AfterInvalidResponse)
  /\ UNCHANGED << openai, gemini, db, request, generation, deployCalls, calls, callVars >>

\* deploymentService.deploy({stack, output, files})
Deploy(i) ==
  /\ pc[i] = "deploy"
  /\ deployCalls' = [deployCalls EXCEPT ![i] = @ + 1]
  /\ \E fault \in DeployFaults, idToken \in Tokens, hashToken \in Tokens :
       LET r == deploy(request[i].stack, request[i].output, Val(generationResult[i]).files,
                       fault, idToken, hashToken)
       IN  /\ calls' = [calls EXCEPT ![i] =
                          Append(@, Call("deploymentService.deploy", r.threw))]
           /\ IF r.threw
              THEN Catch(i)
              ELSE /\ pc' = [pc EXCEPT ![i] = "complete_update"]
                   /\ LocalsAt(i, "complete_update", generationResult[i],
                               validationResult[i], Some(r.value))
                   /\ UNCHANGED responses
  /\ UNCHANGED << openai, gemini, db, request, generation, callVars >>

\* deploymentService.deploy in download mode when the archive's output stream
\* fails (OutputError): the promise of createDownload never settles, and the
\* await in generateCode never returns
DeployNeverReturns(i) ==
  /\ pc[i] = "deploy"
  /\ request[i].output = "download"
  /\ deployCalls' = [deployCalls EXCEPT ![i] = @ + 1]
  /\ calls' = [calls EXCEPT ![i] = Append(@, Call("deploymentService.deploy", FALSE))]
  /\ Goto(i, "awaiting_deploy")
  /\ UNCHANGED << openai, gemini, db, request, generation, responses, callVars >>

\* Generation.findByIdAndUpdate(generation._id, {generatedFiles, ..., status: 'completed'})
CompleteUpdate(i) ==
  /\ pc[i] = "complete_update"
  /\ \E dbFails \in BOOLEAN :
       IF dbFails
       THEN /\ Catch(i)
            /\ UNCHANGED db
       ELSE /\ db' = [db EXCEPT ![generation[i]] =
                        CompletedUpdate(@, Val(generationResult[i]), Val(deploymentResult[i]))]
            /\ Goto(i, "respond_created")
            /\ UNCHANGED responses
  /\ UNCHANGED << openai, gemini, request, generation, deployCalls, calls, callVars >>

\* res.status(201).json({success: true, data: {generation: {...}}})
RespondCreated(i) ==
  /\ pc[i] = "respond_created"
  /\ responses' = [responses EXCEPT ![i] =
       Append(@, [status |-> 201, error |-> NULL,
                  details |-> [id |-> generation[i], status |-> "completed",
                               delivery |-> Val(deploymentResult[i]),
                               files |-> Val(generationResult[i]).files]])]
  /\ Goto(i, "done")
  /\ UNCHANGED << openai, gemini, db, request, generation, deployCalls, calls, callVars >>

\* --------------------------------------------- a direct validateCode call
\* The files a caller can hand to validateCode.
FileUniverse ==
  { [filename |-> "package.json", content |-> PkgFull, language |-> "json"],
    [filename |-> "package.json", content |-> PkgNoVersion, language |-> "json"],
    [filename |-> "package.json", content |-> PkgBroken, language |-> "json"],
    [filename |-> "App.jsx", content |-> SrcClean, language |-> "javascript"],
    [filename |-> "server.js", content |-> SrcBroken, language |-> "javascript"],
    [filename |-> "server.js", content |-> SrcEval, language |-> "javascript"],
    [filename |-> "App.vue", content |-> SrcEval, language |-> "javascript"],
    [filename |-> "app.py", content |-> SrcSecret, language |-> "python"],
    [filename |-> "app.py", content |-> SrcBroken, language |-> "python"],
    [filename |-> "index.html", content |-> HtmlFull, language |-> "html"],
    [filename |-> "index.html", content |-> HtmlBare, language |-> "html"],
    [filename |-> "main.js", content |-> SrcInnerHTML, language |-> "javascript"],
    [filename |-> "frontend/package.json", content |-> PkgFull, language |-> "json"],
    [filename |-> "frontend/App.jsx", content |-> SrcDocWrite, language |-> "javascript"],
    [filename |-> "backend/package.json", content |-> PkgFull, language |-> "json"],
    [filename |-> "backend/server.js", content |-> SrcBroken, language |-> "javascript"] }

FileLists == UNION {[1..n -> FileUniverse] : n \in 0..MaxFiles}

\* the stacks a direct caller can pass: the enumerated ones and an unknown one
CallStacks == Stacks \cup {"svelte"}

ValidateCall ==
  /\ vPc = "called"
  /\ \E fault \in ValidationFaults :
       /\ vResult' = Some(validateCode(vFiles, vStack, fault))
       /\ vFault' = fault
  /\ vPc' = "returned"
  /\ UNCHANGED << vFiles, vStack, stagingVars, serviceVars >>
  /\ UNCHANGED pipelineVars

\* ------------------------------------------ validateCode, step by step
\* One validateCode call is a sequence of awaited I/O steps; other calls run
\* between them on the same temp-validation directory.

\* a directory without entries
EmptyDir == [p \in {} |-> NULL]

\* fs.ensureDir(dirname) and fs.writeFile(path, content) in directory `dir`:
\* the directory is created when it is missing, the file replaced when it exists
WriteInto(root, dir, path, content) ==
  LET old == IF dir \in DOMAIN root THEN root[dir] ELSE EmptyDir
      new == [q \in DOMAIN old \cup {path} |-> IF q = path THEN content ELSE old[q]]
  IN  [d \in DOMAIN root \cup {dir} |-> IF d = dir THEN new ELSE root[d]]

\* fs.ensureDir(dir): an existing directory is left as it is
EnsureDir(root, dir) ==
  [d \in DOMAIN root \cup {dir} |-> IF d \in DOMAIN root THEN root[d] ELSE EmptyDir]

\* fs.remove(dir): the directory and everything below it; no error when missing
Remove(root, dir) == [d \in DOMAIN root \ {dir} |-> root[d]]

\* path.join(process.cwd(), 'temp-validation', Date.now().toString()), as the
\* name below temp-validation
TempDir(t) == ToString(t)

\* the file lists and stacks of the concurrent calls
StagedInputs ==
  { [files |-> << [filename |-> "package.json", content |-> PkgFull, language |-> "json"],
                  [filename |-> "server.js", content |-> SrcEval, language |-> "javascript"] >>,
     stack |-> "node"],
    [files |-> << [filename |-> "App.jsx", content |-> SrcClean, language |-> "javascript"] >>,
     stack |-> "react"],
    [files |-> << [filename |-> "app.py", content |-> SrcSecret, language |-> "python"] >>,
     stack |-> "python"] }

\* a call that has just been made, with the result literal it starts from;
\* `threw` is the step whose exception reached the catch block, `injected` the
\* directory listings that failed although the directory was there
NewCall(input) ==
  [pc |-> "ensureDir", files |-> input.files, stack |-> input.stack, tempDir |-> NULL,
   written |-> 0, result |-> EmptyResult, threw |-> NULL, injected |-> {}]

\* no validateCode call is running
NoStaging ==
  /\ now = 1
  /\ tempValidation = EmptyDir
  /\ validation = << >>

\* no provider call is made directly, no socket is connected, no reset is asked
NoModule ==
  /\ llmCall = [pc |-> "idle"]
  /\ collab = [pc |-> "idle"]
  /\ auth = [pc |-> "idle"]

\* no delivery is called directly and no query is made
NoService ==
  /\ deliveryCall = [pc |-> "idle"]
  /\ query = [pc |-> "idle"]
  /\ NoModule

\* the files the call's checks see: readdir of a missing directory throws
Staged(c) ==
  IF validation[c].tempDir \in DOMAIN tempValidation
  THEN tempValidation[validation[c].tempDir] ELSE EmptyDir

ReaddirFault(c, step, injected) ==
  IF validation[c].tempDir \notin DOMAIN tempValidation THEN step ELSE injected

\* the catch block: the step that threw is recorded, the call returns
CaughtAt(c, step) ==
  validation' = [validation EXCEPT
                   ![c].result = ValidationCaught(@, step),
                   ![c].threw = step,
                   ![c].pc = "returned"]

\* a result object that outlives the call and is handed on to the next one
ResultOfPreviousCall(c) == IF c > 1 THEN validation[c - 1].result ELSE EmptyResult

\* const result = { isValid: true, errors: [], warnings: [], securityIssues: [] }:
\* a fresh object in every call
ResultLiteral(c) == EmptyResult

\* const result = ...; const tempDir = ...; await fs.ensureDir(tempDir)
EnsureTempDir(c) ==
  /\ validation[c].pc = "ensureDir"
  /\ \E fails \in BOOLEAN :
       IF fails
       THEN /\ validation' = [validation EXCEPT
                                ![c].tempDir = TempDir(now),
                                ![c].result = ValidationCaught(ResultLiteral(c), "ensureDir"),
                                ![c].threw = "ensureDir",
                                ![c].pc = "returned"]
            /\ UNCHANGED tempValidation
       ELSE /\ tempValidation' = EnsureDir(tempValidation, TempDir(now))
            /\ validation' = [validation EXCEPT ![c].tempDir = TempDir(now),
                                                ![c].result = ResultLiteral(c),
                                                ![c].pc = "write"]
  /\ UNCHANGED << now, pipelineVars, serviceVars,
                vFiles, vStack, vResult, vPc, vFault >>

\* one round of the loop over files: ensureDir(dirname), writeFile
WriteFile(c) ==
  /\ validation[c].pc = "write"
  /\ validation[c].written < Len(validation[c].files)
  /\ \E fails \in BOOLEAN :
       IF fails
       THEN /\ CaughtAt(c, "writeFile")
            /\ UNCHANGED tempValidation
       ELSE LET file == validation[c].files[validation[c].written + 1]
            IN  /\ tempValidation' = WriteInto(tempValidation, validation[c].tempDir,
                                               file.filename, file.content)
                /\ validation' = [validation EXCEPT ![c].written = @ + 1]
  /\ UNCHANGED << now, pipelineVars, serviceVars,
                vFiles, vStack, vResult, vPc, vFault >>

\* await this.runStackSpecificValidation(tempDir, stack, result)
StackCheck(c) ==
  /\ validation[c].pc = "write"
  /\ validation[c].written = Len(validation[c].files)
  /\ \E injected \in {"none", "stackReaddir"} :
       validation' = [validation EXCEPT
                        ![c].result = runStackSpecificValidation(
                                        Staged(c), validation[c].stack, @,
                                        ReaddirFault(c, "stackReaddir", injected)),
                        ![c].injected = @ \cup ({injected} \ {"none"}),
                        ![c].pc = "scan"]
  /\ UNCHANGED << now, tempValidation, pipelineVars, serviceVars,
                vFiles, vStack, vResult, vPc, vFault >>

\* await this.runSecurityScan(tempDir, result)
SecurityScan(c) ==
  /\ validation[c].pc = "scan"
  /\ \E injected \in {"none", "scanReaddir"} :
       validation' = [validation EXCEPT
                        ![c].result = runSecurityScan(
                                        Staged(c), @, ReaddirFault(c, "scanReaddir", injected)),
                        ![c].injected = @ \cup ({injected} \ {"none"}),
                        ![c].pc = "remove"]
  /\ UNCHANGED << now, tempValidation, pipelineVars, serviceVars,
                vFiles, vStack, vResult, vPc, vFault >>

\* await fs.remove(tempDir), the last statement of the try block
Cleanup(c) ==
  /\ validation[c].pc = "remove"
  /\ \E fails \in BOOLEAN :
       IF fails
       THEN /\ CaughtAt(c, "remove")
            /\ UNCHANGED tempValidation
       ELSE /\ tempValidation' = Remove(tempValidation, validation[c].tempDir)
            /\ validation' = [validation EXCEPT ![c].pc = "returned"]
  /\ UNCHANGED << now, pipelineVars, serviceVars,
                vFiles, vStack, vResult, vPc, vFault >>

\* a millisecond passes
Tick ==
  /\ now < MaxClock
  /\ now' = now + 1
  /\ UNCHANGED << tempValidation, validation, pipelineVars, serviceVars,
                vFiles, vStack, vResult, vPc, vFault >>

\* ------------------------------------------------ delivery, step by step
\* deployToProduction and createDownload as the sequence of their awaited
\* steps and, for the archive, of the stream events that follow.

\* the files handed to a direct delivery call
DeliveryFileUniverse ==
  { [filename |-> "a.js", content |-> SrcClean, language |-> "javascript"],
    [filename |-> "b.js", content |-> SrcEval, language |-> "javascript"],
    [filename |-> "README.md", content |-> "# mine", language |-> "markdown"] }

DeliveryFileLists == UNION {[1..n -> DeliveryFileUniverse] : n \in 0..MaxFiles}

\* the awaited steps of deployToProduction, in program order
DeployOrderBuildFirst ==
  << "ensureDir", "buildImage", "writeFiles", "writeDockerfile",
     "createContainer", "startContainer" >>

DeployOrder ==
  << "ensureDir", "writeFiles", "writeDockerfile", "buildImage",
     "createContainer", "startContainer" >>

\* the statements of the executor of createDownload's promise, in program order
ExecutorOrder ==
  << "onClose", "onError", "pipe", "appendFiles", "appendReadme", "appendInstall",
     "finalize" >>

\* generateReadme / generateInstallScript: texts that depend on the stack, abridged
generateReadme(stack) == "# Generated by EchoF AI - Powered by Mlungisi: " \o stack
generateInstallScript(stack) == "#!/bin/bash # EchoF install: " \o stack

\* the entries archive.append queues for a file list
FileEntries(files) ==
  [k \in DOMAIN files |-> [name |-> files[k].filename, content |-> files[k].content]]

\* a promise that resolves as soon as the archive is finalized
ResolveEventFinalize == "finalize"

\* the event whose handler resolves the promise of createDownload
ResolveEvent == "close"

\* a delivery call that has just been made
NewDelivery(mode, files, stack) ==
  [pc |-> "ensureDir", mode |-> mode, files |-> files, stack |-> stack,
   steps |-> << >>, entries |-> << >>, finalized |-> FALSE, written |-> 0,
   closed |-> FALSE, failure |-> NULL, threw |-> FALSE, message |-> NULL,
   result |-> NoDelivery]

\* the call has settled: it returned a result or threw
DeliveryReturns(d, value) == [d EXCEPT !.pc = "resolved", !.result = value]
DeliveryThrows(d, step, msg) ==
  [d EXCEPT !.pc = "rejected", !.failure = step, !.threw = TRUE, !.message = msg]

\* deployToProduction: the next awaited step (the loop over the files is one
\* step, which has nothing to fail on for an empty list); a failing one reaches
\* the catch block, which throws 'Deployment failed'
DeployStep ==
  /\ deliveryCall.pc \in {"ensureDir", "running"}
  /\ deliveryCall.mode = "deploy"
  /\ Len(deliveryCall.steps) < Len(DeployOrder)
  /\ LET step == DeployOrder[Len(deliveryCall.steps) + 1]
         canFail == step # "writeFiles" \/ deliveryCall.files # << >>
     IN  \E fails \in {FALSE, canFail} :
           deliveryCall' = IF fails
                       THEN DeliveryThrows(deliveryCall, step, "Deployment failed")
                       ELSE [deliveryCall EXCEPT !.pc = "running", !.steps = Append(@, step)]
  /\ UNCHANGED << pipelineVars, stagingVars, query, moduleVars, vFiles, vStack, vResult, vPc, vFault >>

\* deployToProduction: return {deploymentUrl, gitCommitHash}
DeployReturn ==
  /\ deliveryCall.pc = "running"
  /\ deliveryCall.mode = "deploy"
  /\ Len(deliveryCall.steps) = Len(DeployOrder)
  /\ \E idToken \in Tokens, hashToken \in Tokens :
       deliveryCall' = DeliveryReturns(deliveryCall,
                     [NoDelivery EXCEPT
                        !.deploymentUrl = "https://" \o DeliveryId("deploy", idToken) \o ".echo-f.com",
                        !.gitCommitHash = generateCommitHash(hashToken)])
  /\ UNCHANGED << pipelineVars, stagingVars, query, moduleVars, vFiles, vStack, vResult, vPc, vFault >>

\* createDownload: await fs.ensureDir(path.dirname(zipPath)), inside the try
DownloadEnsureDir ==
  /\ deliveryCall.pc = "ensureDir"
  /\ deliveryCall.mode = "download"
  /\ \E fails \in BOOLEAN :
       deliveryCall' = IF fails
                   THEN DeliveryThrows(deliveryCall, "ensureDir", "Download creation failed")
                   ELSE [deliveryCall EXCEPT !.pc = "executor"]
  /\ UNCHANGED << pipelineVars, stagingVars, query, moduleVars, vFiles, vStack, vResult, vPc, vFault >>

\* createDownload: the next statement of the promise executor; the executor
\* runs to its end before any stream event is delivered
ExecutorStep ==
  /\ deliveryCall.pc = "executor"
  /\ LET step == ExecutorOrder[Len(deliveryCall.steps) + 1]
         next == IF Len(deliveryCall.steps) + 1 = Len(ExecutorOrder) THEN "pending" ELSE "executor"
     IN  deliveryCall' =
           [deliveryCall EXCEPT
              !.pc = next,
              !.steps = Append(@, step),
              !.entries =
                 CASE step = "appendFiles" -> @ \o FileEntries(deliveryCall.files)
                   [] step = "appendReadme" ->
                        Append(@, [name |-> "README.md", content |-> generateReadme(deliveryCall.stack)])
                   [] step = "appendInstall" ->
                        Append(@, [name |-> "install.sh",
                                   content |-> generateInstallScript(deliveryCall.stack)])
                   [] OTHER -> @,
              !.finalized = (@ \/ step = "finalize")]
  /\ UNCHANGED << pipelineVars, stagingVars, query, moduleVars, vFiles, vStack, vResult, vPc, vFault >>

\* the archiver writes its next queued entry to the output stream
WriteEntry ==
  /\ deliveryCall.pc = "pending"
  /\ deliveryCall.failure = NULL
  /\ deliveryCall.written < Len(deliveryCall.entries)
  /\ deliveryCall' = [deliveryCall EXCEPT !.written = @ + 1]
  /\ UNCHANGED << pipelineVars, stagingVars, query, moduleVars, vFiles, vStack, vResult, vPc, vFault >>

\* the archiver emits 'error': its listener is reject itself, so the promise
\* is rejected with the archiver's error
ArchiveError ==
  /\ deliveryCall.pc = "pending"
  /\ deliveryCall.failure = NULL
  /\ ~deliveryCall.closed
  /\ deliveryCall' = DeliveryThrows(deliveryCall, "archive", FaultMessage("archive"))
  /\ UNCHANGED << pipelineVars, stagingVars, query, moduleVars, vFiles, vStack, vResult, vPc, vFault >>

\* the output file stream emits 'error' (open or write failure): createDownload
\* registered no listener for it, the stream is dead and never emits 'close'
OutputError ==
  /\ deliveryCall.pc = "pending"
  /\ deliveryCall.failure = NULL
  /\ ~deliveryCall.closed
  /\ deliveryCall' = [deliveryCall EXCEPT !.failure = "output"]
  /\ UNCHANGED << pipelineVars, stagingVars, query, moduleVars, vFiles, vStack, vResult, vPc, vFault >>

\* every entry is written and the archive is finalized: the archiver ends and
\* the output stream emits 'close'
OutputClose ==
  /\ deliveryCall.pc = "pending"
  /\ deliveryCall.failure = NULL
  /\ deliveryCall.finalized
  /\ deliveryCall.written = Len(deliveryCall.entries)
  /\ ~deliveryCall.closed
  /\ deliveryCall' = [deliveryCall EXCEPT !.closed = TRUE]
  /\ UNCHANGED << pipelineVars, stagingVars, query, moduleVars, vFiles, vStack, vResult, vPc, vFault >>

\* the event `event` has happened
EventSeen(event) ==
  CASE event = "close" -> deliveryCall.closed
    [] event = "finalize" -> deliveryCall.finalized

\* the handler of the resolving event: resolve({downloadUrl, gitCommitHash})
Resolve ==
  /\ deliveryCall.pc = "pending"
  /\ "onClose" \in {deliveryCall.steps[k] : k \in DOMAIN deliveryCall.steps}
  /\ EventSeen(ResolveEvent)
  /\ \E idToken \in Tokens, hashToken \in Tokens :
       deliveryCall' = DeliveryReturns(deliveryCall,
                     [NoDelivery EXCEPT
                        !.downloadUrl = "https://downloads.echo-f.com/"
                                          \o DeliveryId("download", idToken) \o ".zip",
                        !.gitCommitHash = generateCommitHash(hashToken)])
  /\ UNCHANGED << pipelineVars, stagingVars, query, moduleVars, vFiles, vStack, vResult, vPc, vFault >>

\* ------------------------------------------------- generation queries
\* getUserGenerations and getGenerationById against a stored collection.

Users == {"u1", "u2"}

\* the limit used when the query names none
DefaultLimit == 10

\* a collection whose k-th inserted record belongs to owners[k]; the schema's
\* timestamps option stamps createdAt at insertion
StoredCollection(owners) ==
  [k \in DOMAIN owners |->
     [id |-> "gen" \o ToString(k), user |-> owners[k], createdAt |-> k,
      generatedFiles |-> << >>]]

\* fifteen records of u1 around one record of u2
FifteenOfOne == StoredCollection([k \in 1..16 |-> IF k = 7 THEN "u2" ELSE "u1"])

Collections ==
  {FifteenOfOne} \cup
  {StoredCollection(owners) : owners \in UNION {[1..n -> Users] : n \in 0..MaxRecords}}

\* req.query.page / req.query.limit as they arrive: numerals, text, or absent
Numerals == (0..MaxPage) \cup {DefaultLimit}
QueryParams == {ToString(n) : n \in Numerals} \cup {"abc", "undefined"}

\* parseInt: the number a numeral denotes, NaN (no value) otherwise
ParseInt(raw) ==
  LET denoted == {n \in Numerals : ToString(n) = raw}
  IN  IF denoted = {} THEN << >> ELSE << CHOOSE n \in denoted : TRUE >>

\* parsed || fallback: NaN and 0 are falsy
OrElse(parsed, fallback) ==
  IF parsed = << >> \/ parsed[1] = 0 THEN fallback ELSE parsed[1]

\* a skip that starts after the requested page
SkipPastPage(page, limit) == page * limit

\* const skip = (page - 1) * limit
Skip(page, limit) == (page - 1) * limit

\* find / countDocuments filter {user}
OwnedBy(coll, user) == SelectSeq(coll, LAMBDA g : g.user = user)

\* sort({createdAt: -1})
RECURSIVE SortNewestFirst(_)
SortNewestFirst(docs) ==
  IF docs = << >> THEN << >>
  ELSE LET k == CHOOSE j \in DOMAIN docs :
                   \A m \in DOMAIN docs : docs[m].createdAt <= docs[j].createdAt
           rest == [m \in 1..(Len(docs) - 1) |-> IF m < k THEN docs[m] ELSE docs[m + 1]]
       IN  << docs[k] >> \o SortNewestFirst(rest)

\* cursor.skip(n).limit(l)
SkipLimit(docs, n, l) ==
  IF n >= Len(docs) THEN << >>
  ELSE SubSeq(docs, n + 1, IF n + l > Len(docs) THEN Len(docs) ELSE n + l)

\* select('-generatedFiles')
WithoutFiles(docs) ==
  [k \in DOMAIN docs |->
     [id |-> docs[k].id, user |-> docs[k].user, createdAt |-> docs[k].createdAt]]

\* Math.ceil(total / limit) for limit >= 1
Ceil(total, limit) == (total + limit - 1) \div limit

\* a request as the route hands it to its handler
NewQuery(kind, coll, user, page, limit, id) ==
  [pc |-> "received", kind |-> kind, coll |-> coll, user |-> user,
   page |-> page, limit |-> limit, id |-> id,
   found |-> << >>, total |-> 0, response |-> << >>]

QueryPage == OrElse(ParseInt(query.page), 1)
QueryLimit == OrElse(ParseInt(query.limit), DefaultLimit)

\* await Generation.find({user}).sort().skip().limit().select(); a rejected
\* query goes to next(error)
Find ==
  /\ query.pc = "received"
  /\ query.kind = "list"
  /\ \E fails \in BOOLEAN :
       query' = IF fails
                THEN [query EXCEPT !.pc = "error"]
                ELSE [query EXCEPT
                        !.pc = "found",
                        !.found = WithoutFiles(
                                    SkipLimit(SortNewestFirst(OwnedBy(query.coll, query.user)),
                                              Skip(QueryPage, QueryLimit), QueryLimit))]
  /\ UNCHANGED << pipelineVars, stagingVars, deliveryCall, moduleVars, vFiles, vStack, vResult, vPc, vFault >>

\* await Generation.countDocuments({user})
CountDocuments ==
  /\ query.pc = "found"
  /\ query.kind = "list"
  /\ \E fails \in BOOLEAN :
       query' = IF fails
                THEN [query EXCEPT !.pc = "error"]
                ELSE [query EXCEPT !.pc = "counted",
                                   !.total = Len(OwnedBy(query.coll, query.user))]
  /\ UNCHANGED << pipelineVars, stagingVars, deliveryCall, moduleVars, vFiles, vStack, vResult, vPc, vFault >>

\* res.status(200).json({generations, pagination})
RespondList ==
  /\ query.pc = "counted"
  /\ query' = [query EXCEPT
                 !.pc = "done",
                 !.response = << [status |-> 200, error |-> NULL,
                                  generations |-> query.found,
                                  pagination |-> [page |-> QueryPage, limit |-> QueryLimit,
                                                  total |-> query.total,
                                                  pages |-> Ceil(query.total, QueryLimit)]] >>]
  /\ UNCHANGED << pipelineVars, stagingVars, deliveryCall, moduleVars, vFiles, vStack, vResult, vPc, vFault >>

\* Generation.findOne({_id, user}): the first record matching both, or null
FindOne(coll, id, user) ==
  SkipLimit(SelectSeq(coll, LAMBDA g : g.id = id /\ g.user = user), 0, 1)

\* getGenerationById without a database failure: 404 for null, 200 otherwise
getGenerationById(coll, user, id) ==
  LET doc == FindOne(coll, id, user)
  IN  IF doc = << >>
      THEN [status |-> 404, error |-> "Generation not found", generations |-> << >>]
      ELSE [status |-> 200, error |-> NULL, generations |-> doc]

\* the handler of GET /api/generation/:id; a rejected query goes to next(error)
GetById ==
  /\ query.pc = "received"
  /\ query.kind = "byId"
  /\ \E fails \in BOOLEAN :
       query' =
         IF fails THEN [query EXCEPT !.pc = "error"]
         ELSE [query EXCEPT
                 !.pc = "done",
                 !.found = FindOne(query.coll, query.id, query.user),
                 !.response = << getGenerationById(query.coll, query.user, query.id) >>]
  /\ UNCHANGED << pipelineVars, stagingVars, deliveryCall, moduleVars, vFiles, vStack, vResult, vPc, vFault >>

\* ------------------------------------------- a direct generateCode call
\* LLMService.generateCode called with a given configuration and backend reply.

\* a call that has just been made
NewLlmCall(hasOpenai, hasGemini, stack, reply) ==
  [pc |-> "called", openai |-> hasOpenai, gemini |-> hasGemini, stack |-> stack,
   reply |-> reply, threw |-> FALSE, message |-> NULL]

\* the call returns its result or throws its error to the caller
GenerateCall ==
  /\ llmCall.pc = "called"
  /\ LET r == llmGenerateCode(llmCall.openai, llmCall.gemini, llmCall.stack, llmCall.reply)
     IN  llmCall' = [llmCall EXCEPT !.pc = "returned", !.threw = r.threw,
                                    !.message = r.message]
  /\ UNCHANGED << pipelineVars, stagingVars, deliveryCall, query, collab, auth,
                  vFiles, vStack, vResult, vPc, vFault >>

\* -------------------------------------------------------- socket handlers
\* The handlers setupSocketHandlers registers on every connection, for one
\* stored project and the sockets of authenticated users.

Sockets == 1..NumSockets
Shares == 1..NumShares

\* socket.userId, set by the authentication middleware
SocketUser(s) == "u" \o ToString(s)

\* the stored project, and an id no project has
ProjectIds == {"p1", "p0"}
ProjectOwner == "u1"

\* data.targetUserId of a share-project event
ShareTargets == {"u2", "u3"}

\* a socket right after io.on('connection')
NewSocket(s) ==
  [user |-> SocketUser(s), connected |-> TRUE, projectId |-> NULL, rooms |-> {},
   joined |-> 0, userLeft |-> 0]

\* a share-project handler that has not been started
NoShare == [pc |-> "idle", socket |-> 0, projectId |-> NULL, target |-> NULL, doc |-> << >>]

\* the sequence holds the element
Holds(seq, e) == \E k \in DOMAIN seq : seq[k] = e

\* Project.findOne({_id, $or: [{owner}, {collaborators}]}) finds the project
CanJoin(projectId, user) ==
  projectId = "p1" /\ (user = ProjectOwner \/ Holds(collab.collaborators, user))

\* join-project: on a found project remember it, join its room, tell the room
JoinProject(s, projectId) ==
  /\ collab.pc = "serving"
  /\ collab.sockets[s].connected
  /\ collab.sockets[s].joined < MaxEvents
  /\ \E fails \in BOOLEAN :
       collab' = IF fails \/ ~CanJoin(projectId, collab.sockets[s].user)
                 THEN collab
                 ELSE [collab EXCEPT !.sockets[s].projectId = projectId,
                                     !.sockets[s].rooms = @ \cup {projectId},
                                     !.sockets[s].joined = @ + 1]
  /\ UNCHANGED << pipelineVars, stagingVars, deliveryCall, query, llmCall, auth,
                  vFiles, vStack, vResult, vPc, vFault >>

\* leave-project: leave the room and broadcast user-left to it
LeaveProject(s, projectId) ==
  /\ collab.pc = "serving"
  /\ collab.sockets[s].connected
  /\ collab.sockets[s].userLeft < MaxEvents
  /\ collab' = [collab EXCEPT !.sockets[s].rooms = @ \ {projectId},
                              !.sockets[s].userLeft = @ + 1]
  /\ UNCHANGED << pipelineVars, stagingVars, deliveryCall, query, llmCall, auth,
                  vFiles, vStack, vResult, vPc, vFault >>

\* disconnect: broadcast user-left when socket.projectId is set
Disconnect(s) ==
  /\ collab.pc = "serving"
  /\ collab.sockets[s].connected
  /\ collab' = [collab EXCEPT
                  !.sockets[s].connected = FALSE,
                  !.sockets[s].rooms = {},
                  !.sockets[s].userLeft =
                     IF collab.sockets[s].projectId # NULL THEN @ + 1 ELSE @]
  /\ UNCHANGED << pipelineVars, stagingVars, deliveryCall, query, llmCall, auth,
                  vFiles, vStack, vResult, vPc, vFault >>

\* share-project arrives: the handler starts Project.findOne({_id, owner})
ShareProject(h, s, projectId, target) ==
  /\ collab.pc = "serving"
  /\ collab.sockets[s].connected
  /\ collab.shares[h].pc = "idle"
  /\ collab' = [collab EXCEPT !.shares[h] =
                  [pc |-> "find", socket |-> s, projectId |-> projectId, target |-> target,
                   doc |-> << >>]]
  /\ UNCHANGED << pipelineVars, stagingVars, deliveryCall, query, llmCall, auth,
                  vFiles, vStack, vResult, vPc, vFault >>

\* findOne resolves with the handler's own copy of the document; a target the
\* copy does not hold is pushed onto it and project.save() is started
ShareFound(h) ==
  /\ collab.shares[h].pc = "find"
  /\ LET share == collab.shares[h]
         found == share.projectId = "p1" /\ collab.sockets[share.socket].user = ProjectOwner
     IN  \E fails \in BOOLEAN :
           collab' =
             IF fails \/ ~found THEN [collab EXCEPT !.shares[h].pc = "error"]
             ELSE IF Holds(collab.collaborators, share.target)
             THEN [collab EXCEPT !.shares[h].pc = "shared",
                                 !.shares[h].doc = collab.collaborators]
             ELSE [collab EXCEPT !.shares[h].pc = "save",
                                 !.shares[h].doc = Append(collab.collaborators, share.target)]
  /\ UNCHANGED << pipelineVars, stagingVars, deliveryCall, query, llmCall, auth,
                  vFiles, vStack, vResult, vPc, vFault >>

\* project.save() resolves: Mongoose sends the push of the handler's copy as
\* a $push of the pushed element, which the database appends to what it holds
ShareSaved(h) ==
  /\ collab.shares[h].pc = "save"
  /\ \E fails \in BOOLEAN :
       collab' =
         IF fails THEN [collab EXCEPT !.shares[h].pc = "error"]
         ELSE [collab EXCEPT !.shares[h].pc = "shared",
                             !.collaborators = Append(@, collab.shares[h].target)]
  /\ UNCHANGED << pipelineVars, stagingVars, deliveryCall, query, llmCall, auth,
                  vFiles, vStack, vResult, vPc, vFault >>

\* --------------------------------------------------------- auth controller
\* forgotPassword and resetPassword for one registered user. Time is counted
\* in instants; the two lifetimes keep the order they have in the code.

\* the registered user and the emails a request may carry
AuthUser == "u1"
Emails == {"u1@example.com", "nobody@example.com"}
Passwords == {"pw1", "pw2"}

\* passwordResetExpires = Date.now() + 1 hour
ResetWindow == 1
\* expiresIn: JWT_EXPIRE || '7d'
TokenLife == 2

\* jwt.sign(payload, secret, {expiresIn}): the token is determined by its
\* payload and its issue instant
generateToken(payload, date) ==
  [id |-> payload.id, type |-> payload.type, iat |-> date, signed |-> TRUE]

\* a login token of the user (generateToken({id})), and a string no one signed
LoginToken == [id |-> AuthUser, type |-> "", iat |-> 0, signed |-> TRUE]
ForgedToken == [id |-> AuthUser, type |-> "reset", iat |-> 0, signed |-> FALSE]

\* every token a request may carry
AuthTokens ==
  {generateToken([id |-> AuthUser, type |-> "reset"], date) : date \in 0..MaxTime}
    \cup {LoginToken, ForgedToken}

\* jwt.verify(token, secret) returns the payload; it throws on a bad signature
\* and on an expired token
Verifies(token, date) == token.signed /\ date < token.iat + TokenLife

\* forgotPassword: an unknown email changes nothing; for the user a reset token
\* is generated and stored with its one-hour expiry
ForgotPassword(email) ==
  /\ auth.pc = "serving"
  /\ \E fails \in BOOLEAN :
       auth' =
         IF email # "u1@example.com" \/ fails THEN auth
         ELSE LET resetToken == generateToken([id |-> AuthUser, type |-> "reset"], auth.now)
              IN  [auth EXCEPT !.passwordResetToken = Some(resetToken),
                               !.passwordResetExpires = auth.now + ResetWindow,
                               !.issued = @ \cup {resetToken}]
  /\ UNCHANGED << pipelineVars, stagingVars, deliveryCall, query, llmCall, collab,
                  vFiles, vStack, vResult, vPc, vFault >>

\* resetPassword answers 200: the token verifies, is of type reset, and the
\* user it names has a stored reset token whose expiry has not passed
ResetAccepted(token, date) ==
  /\ Verifies(token, date)
  /\ token.type = "reset"
  /\ token.id = AuthUser
  /\ auth.passwordResetToken # None
  /\ ~(auth.passwordResetExpires < date)

\* resetPassword: on acceptance set the password and clear the stored token
\* and expiry; every other path answers 400 and stores nothing
ResetPassword(token, password) ==
  /\ auth.pc = "serving"
  /\ Len(auth.succeeded) < MaxResets
  /\ token \in auth.issued \cup {LoginToken, ForgedToken}
  /\ \E fails \in BOOLEAN :
       auth' =
         IF fails \/ ~ResetAccepted(token, auth.now) THEN auth
         ELSE [auth EXCEPT !.password = password,
                           !.passwordResetToken = None,
                           !.passwordResetExpires = 0,
                           !.succeeded = Append(@, token)]
  /\ UNCHANGED << pipelineVars, stagingVars, deliveryCall, query, llmCall, collab,
                  vFiles, vStack, vResult, vPc, vFault >>

\* time passes
AuthTick ==
  /\ auth.pc = "serving"
  /\ auth.now < MaxTime
  /\ auth' = [auth EXCEPT !.now = @ + 1]
  /\ UNCHANGED << pipelineVars, stagingVars, deliveryCall, query, llmCall, collab,
                  vFiles, vStack, vResult, vPc, vFault >>

\* ------------------------------------------------------- specifications
PipelineIdle ==
  /\ db = EmptyCollection
  /\ pc = [i \in Invocations |-> "idle"]
  /\ request = [i \in Invocations |-> [stack |-> NULL, output |-> NULL]]
  /\ generation = [i \in Invocations |-> NULL]
  /\ generationResult = [i \in Invocations |-> None]
  /\ validationResult = [i \in Invocations |-> None]
  /\ deploymentResult = [i \in Invocations |-> None]
  /\ deployCalls = [i \in Invocations |-> 0]
  /\ responses = [i \in Invocations |-> <<>>]
  /\ calls = [i \in Invocations |-> <<>>]

NoCall ==
  /\ vFiles = <<>>
  /\ vStack = NULL
  /\ vResult = None
  /\ vPc = "idle"
  /\ vFault = NULL
  /\ NoStaging
  /\ NoService

\* the requests the route lets through: any stack with any output mode
Requests == [stack : Stacks, output : Outputs]

\* the requests of the concurrent runs
ConcurrentRequests ==
  { [stack |-> "react", output |-> "deploy"], [stack |-> "python", output |-> "download"] }

\* the backend answers of the concurrent runs: a failure or one text
ConcurrentReplies ==
  { [kind |-> "error", text |-> NULL], [kind |-> "content", text |-> " const a = 1;\n"] }

\* the steps of invocation i, its request drawn from `requests` and the
\* backend's answer from `replies`
Step(i, requests, replies) ==
  \/ CreateRecord(i, requests)
  \/ CallProvider(i, replies)
  \/ Validate(i)
  \/ FailUpdate(i)
  \/ RespondInvalid(i)
  \/ Deploy(i)
  \/ DeployNeverReturns(i)
  \/ CompleteUpdate(i)
  \/ RespondCreated(i)

\* the service singletons are constructed from the environment's API keys
Init ==
  /\ openai \in BOOLEAN
  /\ gemini \in BOOLEAN
  /\ PipelineIdle
  /\ NoCall

Next == Step(1, Requests, BackendReplies)

\* one generateCode invocation, on every request
Spec == Init /\ [][Next]_vars

\* the same, with the event loop running whatever is ready to run
SpecFair == Spec /\ WF_vars(Next)

InitConcurrent ==
  /\ openai = TRUE
  /\ gemini = FALSE
  /\ PipelineIdle
  /\ NoCall

NextConcurrent == \E i \in Invocations : Step(i, ConcurrentRequests, ConcurrentReplies)

\* concurrent generateCode invocations
SpecConcurrent == InitConcurrent /\ [][NextConcurrent]_vars

InitValidate ==
  /\ openai = FALSE
  /\ gemini = FALSE
  /\ PipelineIdle
  /\ vFiles \in FileLists
  /\ vStack \in CallStacks
  /\ vResult = None
  /\ vPc = "called"
  /\ vFault = NULL
  /\ NoStaging
  /\ NoService

NextValidate == ValidateCall

\* validateCode called directly, on any file list and stack
SpecValidate == InitValidate /\ [][NextValidate]_vars

InitStaging ==
  /\ openai = FALSE
  /\ gemini = FALSE
  /\ PipelineIdle
  /\ vFiles = << >>
  /\ vStack = NULL
  /\ vResult = None
  /\ vPc = "idle"
  /\ vFault = NULL
  /\ now = 1
  /\ tempValidation = EmptyDir
  /\ validation \in [Calls -> {NewCall(input) : input \in StagedInputs}]
  /\ NoService

NextStaging ==
  \/ Tick
  \/ \E c \in Calls :
       \/ EnsureTempDir(c)
       \/ WriteFile(c)
       \/ StackCheck(c)
       \/ SecurityScan(c)
       \/ Cleanup(c)

\* concurrent validateCode calls, interleaved at their awaits
SpecStaging == InitStaging /\ [][NextStaging]_vars

\* the same validateCode call made NumCalls times, one after the other
\* the pipeline, the direct validateCode call, the staging area, the delivery
\* and the query are not in use
OnlyModules ==
  /\ openai = FALSE
  /\ gemini = FALSE
  /\ PipelineIdle
  /\ vFiles = << >>
  /\ vStack = NULL
  /\ vResult = None
  /\ vPc = "idle"
  /\ vFault = NULL
  /\ NoStaging
  /\ deliveryCall = [pc |-> "idle"]
  /\ query = [pc |-> "idle"]

InitGenerate ==
  /\ OnlyModules
  /\ llmCall \in {NewLlmCall(hasOpenai, hasGemini, stack, reply) :
                     hasOpenai \in BOOLEAN, hasGemini \in BOOLEAN,
                     stack \in Stacks, reply \in BackendReplies}
  /\ collab = [pc |-> "idle"]
  /\ auth = [pc |-> "idle"]

NextGenerate == GenerateCall

\* LLMService.generateCode called directly, for every configuration and reply
SpecGenerate == InitGenerate /\ [][NextGenerate]_vars

InitCollab ==
  /\ OnlyModules
  /\ llmCall = [pc |-> "idle"]
  /\ collab = [pc |-> "serving", collaborators |-> << >>,
               sockets |-> [s \in Sockets |-> NewSocket(s)],
               shares |-> [h \in Shares |-> NoShare]]
  /\ auth = [pc |-> "idle"]

NextCollab ==
  \/ \E s \in Sockets, projectId \in ProjectIds : JoinProject(s, projectId)
  \/ \E s \in Sockets, projectId \in ProjectIds : LeaveProject(s, projectId)
  \/ \E s \in Sockets : Disconnect(s)
  \/ \E h \in Shares, s \in Sockets, projectId \in ProjectIds, target \in ShareTargets :
       ShareProject(h, s, projectId, target)
  \/ \E h \in Shares : ShareFound(h)
  \/ \E h \in Shares : ShareSaved(h)

\* connected sockets sending join-project, leave-project and share-project
\* events and disconnecting, their handlers interleaved at their awaits
SpecCollab == InitCollab /\ [][NextCollab]_vars

InitAuth ==
  /\ OnlyModules
  /\ llmCall = [pc |-> "idle"]
  /\ collab = [pc |-> "idle"]
  /\ auth = [pc |-> "serving", now |-> 0, password |-> "pw0",
             passwordResetToken |-> None, passwordResetExpires |-> 0,
             issued |-> {}, succeeded |-> << >>]

NextAuth ==
  \/ \E email \in Emails : ForgotPassword(email)
  \/ \E token \in AuthTokens, password \in Passwords :
       ResetPassword(token, password)
  \/ AuthTick

\* forgotPassword and resetPassword requests for one user, in any order, as
\* time passes
SpecAuth == InitAuth /\ [][NextAuth]_vars

InitRerun ==
  /\ openai = FALSE
  /\ gemini = FALSE
  /\ PipelineIdle
  /\ vFiles = << >>
  /\ vStack = NULL
  /\ vResult = None
  /\ vPc = "idle"
  /\ vFault = NULL
  /\ now = 1
  /\ tempValidation = EmptyDir
  /\ validation \in {[c \in Calls |-> NewCall(input)] : input \in StagedInputs}
  /\ NoService

\* the caller awaits each call before it makes the next
PreviousReturned(c) == \A b \in Calls : b < c => validation[b].pc = "returned"

NextRerun ==
  \/ \E c \in Calls : PreviousReturned(c) /\ EnsureTempDir(c)
  \/ \E c \in Calls : PreviousReturned(c) /\ WriteFile(c)
  \/ \E c \in Calls : PreviousReturned(c) /\ StackCheck(c)
  \/ \E c \in Calls : PreviousReturned(c) /\ SecurityScan(c)
  \/ \E c \in Calls : PreviousReturned(c) /\ Cleanup(c)
  \/ Tick

\* validateCode called again with the same arguments after it returned
SpecRerun == InitRerun /\ [][NextRerun]_vars

InitDelivery ==
  /\ openai = FALSE
  /\ gemini = FALSE
  /\ PipelineIdle
  /\ vFiles = << >>
  /\ vStack = NULL
  /\ vResult = None
  /\ vPc = "idle"
  /\ vFault = NULL
  /\ NoStaging
  /\ deliveryCall \in {NewDelivery(mode, files, "node") :
                     mode \in {"deploy", "download"}, files \in DeliveryFileLists}
  /\ query = [pc |-> "idle"]
  /\ NoModule

NextDelivery ==
  \/ DeployStep
  \/ DeployReturn
  \/ DownloadEnsureDir
  \/ ExecutorStep
  \/ WriteEntry
  \/ ArchiveError
  \/ OutputError
  \/ OutputClose
  \/ Resolve

\* deployToProduction or createDownload called directly, on any file list
SpecDelivery == InitDelivery /\ [][NextDelivery]_vars

\* the same, with the event loop running whatever is ready to run
SpecDeliveryFair == SpecDelivery /\ WF_vars(NextDelivery)

\* the ids a point lookup may name: those of stored records, and one that no
\* record has
NoSuchId == "gen0"
LookupIds == {"gen" \o ToString(k) : k \in 1..MaxRecords} \cup {NoSuchId}

InitQuery ==
  /\ openai = FALSE
  /\ gemini = FALSE
  /\ PipelineIdle
  /\ vFiles = << >>
  /\ vStack = NULL
  /\ vResult = None
  /\ vPc = "idle"
  /\ vFault = NULL
  /\ NoStaging
  /\ deliveryCall = [pc |-> "idle"]
  /\ NoModule
  /\ query \in
       {NewQuery("list", coll, user, page, limit, NULL) :
          coll \in Collections, user \in Users, page \in QueryParams, limit \in QueryParams}
       \cup
       {NewQuery("byId", coll, user, "undefined", "undefined", id) :
          coll \in Collections, user \in Users, id \in LookupIds}

NextQuery ==
  \/ Find
  \/ CountDocuments
  \/ RespondList
  \/ GetById

\* one authenticated request to GET /api/generation or GET /api/generation/:id
SpecQuery == InitQuery /\ [][NextQuery]_vars

\* ================================================================ claims
Terminal == {"completed", "failed"}

\* validateCode has returned to invocation i
Validated(i) == validationResult[i] # None

\* the record invocation i created
Record(i) == db[generation[i]]

HasManifest(files) == \E k \in DOMAIN files : files[k].filename = "package.json"
MentionsManifest(errors) == \E k \in DOMAIN errors : Includes(errors[k], "package.json")

UrlFields == {"previewUrl", "deploymentUrl", "downloadUrl"}
UrlsSet(d) == {f \in UrlFields : d[f] # NULL}
ModeField(output) ==
  CASE output = "preview" -> "previewUrl"
    [] output = "deploy" -> "deploymentUrl"
    [] output = "download" -> "downloadUrl"

\* C1: every result validateCode returns has isValid = TRUE exactly when its
\* errors list is empty.
C1_IsValidIffNoErrors ==
  vPc = "returned" => (Val(vResult).isValid <=> Val(vResult).errors = << >>)

\* C2: for a JavaScript-family stack and a file set without package.json,
\* validateCode returns isValid = FALSE with an error that mentions the
\* manifest, and the invocation never calls deploy.
C2_MissingManifestBlocksDelivery ==
  \A i \in Invocations :
    (/\ Validated(i)
     /\ request[i].stack \in JsFamilyStacks
     /\ ~HasManifest(Val(generationResult[i]).files))
    => /\ ~Val(validationResult[i]).isValid
       /\ MentionsManifest(Val(validationResult[i]).errors)
       /\ deployCalls[i] = 0

\* C3: an invocation that has ended leaves its record completed or failed,
\* never pending or generating.
C3_EndedInvocationIsTerminal ==
  \A i \in Invocations :
    (pc[i] = "done" /\ generation[i] # NULL) => Record(i).status \in Terminal

\* C4: a record that is completed or failed is never changed again, by no
\* step of any invocation.
C4_TerminalRecordsFrozen ==
  [][\A r \in DOMAIN db :
       db[r].status \in Terminal => (r \in DOMAIN db' /\ db'[r] = db[r])]_vars

\* C4 witness: two invocations have ended, each after its record became
\* terminal, one failed and one completed.
C4_Witness ==
  \E i, j \in Invocations :
    /\ pc[i] = "done" /\ generation[i] # NULL /\ Record(i).status = "failed"
    /\ pc[j] = "done" /\ generation[j] # NULL /\ Record(j).status = "completed"

\* C5: a record's generatedFiles list is non-empty exactly when its status is
\* completed.
C5_FilesIffCompleted ==
  \A r \in DOMAIN db : (db[r].generatedFiles # << >>) <=> (db[r].status = "completed")

\* C5 witness: a completed record holding its file.
C5_Witness ==
  \E r \in DOMAIN db : db[r].status = "completed" /\ Len(db[r].generatedFiles) = 1

\* C6: a record's error field is set exactly when its status is failed.
C6_ErrorIffFailed ==
  \A r \in DOMAIN db : (db[r].error # NULL) <=> (db[r].status = "failed")

\* C6 witness: a failed record with its joined error message.
C6_Witness ==
  \E r \in DOMAIN db : db[r].status = "failed" /\ StartsWith(db[r].error, "Validation failed: ")

\* C7: when an invocation has just set its record to completed, validateCode
\* had returned it a result without errors and deploy had returned successfully.
C7_CompletedOnlyAfterCleanValidation ==
  \A i \in Invocations :
    (pc[i] # "done" /\ generation[i] # NULL /\ Record(i).status = "completed")
    => /\ Validated(i)
       /\ Val(validationResult[i]).errors = << >>
       /\ deploymentResult[i] # None

\* C8: when validateCode returned a non-empty errors list, the invocation does
\* not call deploy, and once it has written the record, the record is failed
\* with the joined errors; a result without errors never leads to failed.
C8_ErrorsMeanFailed ==
  \A i \in Invocations :
    Validated(i) =>
      /\ Val(validationResult[i]).errors # << >> =>
           /\ deployCalls[i] = 0
           /\ pc[i] \in {"respond_invalid", "respond_created"} =>
                /\ Record(i).status = "failed"
                /\ Record(i).error = Join(Val(validationResult[i]).errors)
      /\ Val(validationResult[i]).errors = << >> => Record(i).status # "failed"

\* C9: a successful deploy returns exactly the URL of its output mode and a
\* commit hash, and every completed record carries exactly that URL and a
\* commit hash.
C9_OneUrlPerMode ==
  /\ \A i \in Invocations :
       deploymentResult[i] # None
       => /\ UrlsSet(Val(deploymentResult[i])) = {ModeField(request[i].output)}
          /\ Val(deploymentResult[i]).gitCommitHash # NULL
  /\ \A r \in DOMAIN db :
       db[r].status = "completed"
       => /\ UrlsSet(db[r]) = {ModeField(db[r].output)}
          /\ db[r].gitCommitHash # NULL

\* C9 witness: completed records of all three output modes cannot coexist in
\* one run of one invocation, so the witness is a completed download record.
C9_Witness ==
  \E r \in DOMAIN db :
    /\ db[r].status = "completed"
    /\ db[r].output = "download"
    /\ db[r].downloadUrl # NULL

\* C10 as stated: a record has status pending right after its creation, before
\* the provider call starts.
C10_CreatedPending ==
  \A i \in Invocations : pc[i] = "created" => Record(i).status = "pending"

\* C10 as amended: a record has status generating right after its creation,
\* before the provider call starts.
C10_CreatedGenerating ==
  \A i \in Invocations : pc[i] = "created" => Record(i).status = "generating"

\* C10 witness: a record was created and the provider call has not started.
C10_Witness ==
  \E i \in Invocations : pc[i] = "created" /\ generation[i] \in DOMAIN db

\* validateCode call c holds a staging directory: tempDir is created and the
\* call has not returned
Staging(c) == validation[c].pc \in {"write", "scan", "remove"}

\* C11: whenever validateCode has returned, on every exit path, the staging
\* directory it created no longer exists.
C11_StagingRemovedOnReturn ==
  \A c \in Calls :
    validation[c].pc = "returned" => validation[c].tempDir \notin DOMAIN tempValidation

\* C12: two validateCode calls that overlap in time use different staging
\* directories, and a call whose own I/O did not fail returns the result it
\* returns when it runs alone: it never read, lost or had overwritten a file
\* because of another call.
C12_DistinctStagingDirs ==
  /\ \A c, d \in Calls :
       (c # d /\ Staging(c) /\ Staging(d)) => validation[c].tempDir # validation[d].tempDir
  /\ \A c \in Calls :
       (validation[c].pc = "returned" /\ validation[c].threw = NULL
          /\ validation[c].injected = {})
       => validation[c].result = validateCode(validation[c].files, validation[c].stack, "none")

ValidationResultFields == {"isValid", "errors", "warnings", "securityIssues"}

\* the I/O failures that reach the catch block of validateCode: the directory
\* listings of the checks fail inside the checks' own try blocks
ReachesCatch(files, fault) ==
  \/ fault \in {"ensureDir", "remove"}
  \/ fault = "writeFile" /\ files # << >>

\* C13: validateCode never throws to its caller: for every input and whatever
\* step fails, the call returns a ValidationResult; a failure that reaches its
\* catch block gives isValid = FALSE with the failure as the last error, and
\* when creating the staging directory fails, that is the only error.
C13_FailuresAreReturned ==
  vPc = "returned" =>
    /\ DOMAIN Val(vResult) = ValidationResultFields
    /\ ReachesCatch(vFiles, vFault) =>
         /\ ~Val(vResult).isValid
         /\ Val(vResult).errors # << >>
         /\ Val(vResult).errors[Len(Val(vResult).errors)]
              = "Validation failed: " \o FaultMessage(vFault)
    /\ vFault = "ensureDir" => Len(Val(vResult).errors) = 1

\* C13 witness: a call on a non-empty file list returned after
\* fs.ensureDir(tempDir) failed.
C13_Witness ==
  /\ vPc = "returned"
  /\ vFault = "ensureDir"
  /\ vFiles # << >>
  /\ Val(vResult).errors = << "Validation failed: " \o FaultMessage("ensureDir") >>

\* file k of a list is the one the staging area holds under its name
Materialized(files, k) ==
  \A j \in DOMAIN files : files[j].filename = files[k].filename => j <= k

InList(entries, entry) == \E e \in DOMAIN entries : entries[e] = entry
Mentions(entries, word) == \E e \in DOMAIN entries : Includes(entries[e], word)

\* C14: when no I/O step fails, for every staged file, whatever its name,
\* extension and the stack: content with 'eval(' gives a securityIssues entry
\* naming the file, content with 'document.write' gives a securityIssues
\* entry, and content with 'innerHTML' gives a warnings entry and no
\* securityIssues entry about innerHTML.
C14_PatternsAlwaysReported ==
  (vPc = "returned" /\ vFault = "none") =>
    \A k \in DOMAIN vFiles :
      Materialized(vFiles, k) =>
        LET name == Basename(vFiles[k].filename)
            text == vFiles[k].content
        IN  /\ Includes(text, "eval(") =>
                 InList(Val(vResult).securityIssues,
                        name \o ": Use of eval() detected - security risk")
            /\ Includes(text, "document.write") =>
                 InList(Val(vResult).securityIssues,
                        name \o ": Use of document.write detected - security risk")
            /\ Includes(text, "innerHTML") =>
                 /\ InList(Val(vResult).warnings,
                           name \o ": Use of innerHTML detected - consider using textContent or createElement")
                 /\ ~Mentions(Val(vResult).securityIssues, "innerHTML")

\* C15: an invocation sends its response only when its record already has
\* status completed or failed.
C15_ResponseOnlyWhenTerminal ==
  \A i \in Invocations :
    responses[i] # << >> => (generation[i] # NULL /\ Record(i).status \in Terminal)

\* the entries of invocation i's call log for the given services
CallsOf(i, services) == SelectSeq(calls[i], LAMBDA e : e.service \in services)
Backends == {"openai", "gemini"}

\* validation failed: the result lists errors
ValidationFailed(result) == result.errors # << >>

\* the step of invocation i is one in which a stage throws: the record
\* creation, the provider call, the delivery or a record update
StageThrows(i) ==
  \/ pc[i] = "idle" /\ generation'[i] = NULL
  \/ pc[i] \in {"created", "deploy"} /\ calls'[i][Len(calls'[i])].threw
  \/ pc[i] \in {"fail_update", "complete_update"} /\ db' = db

\* the messages of the errors the services throw
UnderlyingMessages ==
  { "backend request failed", "No content generated", "No AI provider configured",
    "Failed to generate code", "Deployment failed", "Download creation failed" }
  \cup {FaultMessage(f) : f \in DeployFaults}

\* C16: whenever an invocation responds, the response is the one of the
\* pipeline outcome: the 500 with the fixed message 'Code generation failed',
\* free of the text of the underlying error, when a stage threw; otherwise 400
\* with the validation result when validation failed; otherwise 201, the
\* record then being completed.
C16_ResponseByOutcome ==
  [][\A i \in Invocations :
       responses'[i] # responses[i] =>
         LET response == responses'[i][Len(responses'[i])]
         IN  IF StageThrows(i)
             THEN /\ response = [status |-> 500, error |-> "Code generation failed",
                                 details |-> NULL]
                  /\ \A m \in UnderlyingMessages : ~Includes(response.error, m)
             ELSE IF ValidationFailed(Val(validationResult[i]))
             THEN /\ response.status = 400
                  /\ response.details = Val(validationResult[i])
             ELSE /\ response.status = 201
                  /\ deploymentResult[i] # None
                  /\ db'[generation[i]].status = "completed"]_vars

ProviderFailed(i) ==
  \/ \E k \in DOMAIN calls[i] : calls[i][k].service \in Backends /\ calls[i][k].threw
  \/ ~openai /\ ~gemini /\ calls[i] # << >>

\* C18: when the provider stage failed, the record is still as it was created,
\* and generateCode has called neither validateCode nor deploy.
C18_ProviderFailureLeavesRecord ==
  \A i \in Invocations :
    ProviderFailed(i) =>
      /\ Record(i) = NewGeneration(request[i].stack, request[i].output)
      /\ CallsOf(i, {"validationService.validateCode", "deploymentService.deploy"}) = << >>
      /\ deployCalls[i] = 0
      /\ validationResult[i] = None

\* C18 witness: an invocation has ended with its 500 response after the
\* backend call of its provider stage threw, its record created.
C18_Witness ==
  /\ pc[1] = "done"
  /\ ProviderFailed(1)
  /\ CallsOf(1, Backends) # << >>
  /\ generation[1] \in DOMAIN db
  /\ responses[1] # << >>

\* deploy has thrown in invocation i
DeployThrew(i) ==
  \E k \in DOMAIN calls[i] : calls[i][k] = Call("deploymentService.deploy", TRUE)

\* C19: when deploy threw after validateCode let the invocation through, the
\* record is still as it was created (not failed; no files, URL or error), and
\* the caller got the generic failure response.
C19_DeployFailureLeavesRecord ==
  \A i \in Invocations :
    DeployThrew(i) =>
      /\ CallsOf(i, {"validationService.validateCode"}) # << >>
      /\ Record(i) = NewGeneration(request[i].stack, request[i].output)
      /\ responses[i] = << [status |-> 500, error |-> "Code generation failed",
                            details |-> NULL] >>

\* C19 witness: the archive of a download request failed.
C19_Witness ==
  /\ DeployThrew(1)
  /\ request[1].output = "download"
  /\ pc[1] = "done"

\* validateCode returned invocation i a result without errors but with
\* security findings
SecurityFindingOnly(i) ==
  /\ Validated(i)
  /\ Val(validationResult[i]).errors = << >>
  /\ Val(validationResult[i]).securityIssues # << >>

\* C20: with a validation result without errors but with security findings,
\* generateCode goes on to deploy; when deploy returned, the record update sets
\* completed and the response is 201; the record never becomes failed and the
\* response is never 400 (a thrown delivery or update error gives the 500, a
\* delivery that never settles gives no response).
C20_SecurityFindingDoesNotBlock ==
  /\ [](\A i \in Invocations :
          SecurityFindingOnly(i) =>
            /\ pc[i] \in {"deploy", "awaiting_deploy", "complete_update", "respond_created"}
            /\ pc[i] # "deploy" => deployCalls[i] = 1
            /\ pc[i] \in {"complete_update", "respond_created"} => deploymentResult[i] # None
            /\ Record(i).status = IF pc[i] = "respond_created" THEN "completed"
                                  ELSE "generating"
            /\ responses[i] = << >>)
  /\ [][\A i \in Invocations :
          (SecurityFindingOnly(i) /\ responses'[i] # responses[i]) =>
            /\ db'[generation[i]].status # "failed"
            /\ Len(responses'[i]) = 1
            /\ IF pc[i] = "respond_created"
               THEN /\ responses'[i][1].status = 201
                    /\ db'[generation[i]].status = "completed"
               ELSE /\ responses'[i][1].status = 500
                    /\ StageThrows(i)]_vars

\* C20 witness: a python invocation whose file calls eval( is about to send
\* its 201 response, its record completed.
C20_Witness ==
  /\ pc[1] = "respond_created"
  /\ SecurityFindingOnly(1)
  /\ Record(1).status = "completed"
  /\ deployCalls[1] = 1

\* the names of the archive's entries, in the order they were appended
EntryNames(d) == [k \in DOMAIN d.entries |-> d.entries[k].name]

\* the filenames of a file list, in order
Filenames(files) == [k \in DOMAIN files |-> files[k].filename]

\* no element of the sequence occurs twice
NoRepeat(seq) == \A j, k \in DOMAIN seq : j # k => seq[j] # seq[k]

\* the download promise resolved
Downloaded == deliveryCall.pc = "resolved" /\ deliveryCall.mode = "download"

\* C21: the archive a download delivers for a list of distinctly named files
\* holds one entry per generated file under its filename, one README.md and
\* one install.sh, nothing else, and no entry name twice, also when a
\* generated file is itself named README.md or install.sh.
C21_ArchiveEntriesUnique ==
  (Downloaded /\ NoRepeat(Filenames(deliveryCall.files))) =>
    /\ EntryNames(deliveryCall)
         = Filenames(deliveryCall.files) \o << "README.md", "install.sh" >>
    /\ NoRepeat(EntryNames(deliveryCall))

\* the request was answered by the handler of the named kind
Answered(kind) == query.pc = "done" /\ query.kind = kind

\* the page and limit of a request that names both as numerals >= 1
NamesPageAndLimit ==
  /\ ParseInt(query.page) # << >> /\ ParseInt(query.page)[1] >= 1
  /\ ParseInt(query.limit) # << >> /\ ParseInt(query.limit)[1] >= 1

\* the stored records of the requesting user
OwnRecords == {k \in DOMAIN query.coll : query.coll[k].user = query.user}

\* the own records created after the one with this id
NewerThan(id) ==
  {k \in OwnRecords :
     \E m \in OwnRecords : query.coll[m].id = id
                             /\ query.coll[k].createdAt > query.coll[m].createdAt}

Smaller(a, b) == IF a < b THEN a ELSE b
Larger(a, b) == IF a > b THEN a ELSE b

\* C22: for a user with N records, page p >= 1 and limit l >= 1,
\* getUserGenerations returns min(l, max(0, N - (p-1)*l)) records, all owned
\* by the user, newest first (the j-th returned record has (p-1)*l + j - 1
\* newer own records), and reports pages = ceil(N / l).
C22_PageOfOwnRecords ==
  (Answered("list") /\ NamesPageAndLimit) =>
    LET p == ParseInt(query.page)[1]
        l == ParseInt(query.limit)[1]
        N == Cardinality(OwnRecords)
        r == query.response[1]
    IN  /\ r.status = 200
        /\ Len(r.generations) = Smaller(l, Larger(0, N - (p - 1) * l))
        /\ \A j \in DOMAIN r.generations :
             /\ r.generations[j].user = query.user
             /\ Cardinality(NewerThan(r.generations[j].id)) = (p - 1) * l + j - 1
        /\ r.pagination.pages * l >= N
        /\ r.pagination.pages = 0 \/ (r.pagination.pages - 1) * l < N
        /\ r.pagination.total = N

\* page 2 with limit 10 of fifteen records: 5 records, pages = 2
C22_Witness ==
  /\ Answered("list")
  /\ query.coll = FifteenOfOne /\ query.user = "u1"
  /\ query.page = "2" /\ query.limit = "10"
  /\ Len(query.response[1].generations) = 5
  /\ query.response[1].pagination.pages = 2

\* the looked-up id is that of a record of another user
OwnedByAnother ==
  \E k \in DOMAIN query.coll :
    query.coll[k].id = query.id /\ query.coll[k].user # query.user

\* C23: getGenerationById returns a record only when the requesting user owns
\* it, and its answer for the id of another user's record differs from its
\* answer for an id that no record has.
C23_ForbiddenDiffersFromNotFound ==
  Answered("byId") =>
    LET r == query.response[1]
    IN  /\ \A j \in DOMAIN r.generations :
             r.generations[j].id = query.id /\ r.generations[j].user = query.user
        /\ OwnedByAnother => r # getGenerationById(query.coll, query.user, NoSuchId)

\* two calls whose I/O and checking tools answered the same way
SameAnswers(b, c) ==
  /\ validation[b].threw = validation[c].threw
  /\ validation[b].injected = validation[c].injected

FilesMaterialized == vFault \notin {"ensureDir", "writeFile"} \/ vFiles = << >>

\* the sequence ends with the given sequence
EndsWithSeq(seq, tail) ==
  /\ Len(tail) <= Len(seq)
  /\ SubSeq(seq, Len(seq) - Len(tail) + 1, Len(seq)) = tail

\* C25: in every validateCode call that materialized its files the security
\* scan runs over them, whatever the stack and whatever the stack-specific
\* check did (recorded errors, recorded nothing, or failed with an exception):
\* the result holds exactly the scan's securityIssues and ends its warnings
\* with the scan's warnings; a scan whose own listing fails leaves its warning.
C25_ScanAlwaysRuns ==
  (vPc = "returned" /\ FilesMaterialized) =>
    LET scan == runSecurityScan(Materialize(vFiles), EmptyResult, "none")
    IN  IF vFault = "scanReaddir"
        THEN EndsWithSeq(Val(vResult).warnings,
                         << "Security scan failed: " \o FaultMessage("scanReaddir") >>)
        ELSE /\ Val(vResult).securityIssues = scan.securityIssues
             /\ EndsWithSeq(Val(vResult).warnings, scan.warnings)

\* the stack-specific check failed with an exception and the scan still found
\* the eval( of a materialized file
C25_Witness ==
  /\ vPc = "returned"
  /\ vFault = "stackReaddir"
  /\ Mentions(Val(vResult).errors, "validation failed: " \o FaultMessage("stackReaddir"))
  /\ Mentions(Val(vResult).securityIssues, "eval()")

\* the staged source files the JavaScript-family check is about
JsSources(fs) ==
  {p \in DOMAIN fs : \E ext \in {".js", ".jsx", ".ts", ".tsx"} : EndsWith(Basename(p), ext)}

\* those of them the syntax checker rejects
FailingSources(fs) == {p \in JsSources(fs) : SyntaxCheckFails(fs[p])}

\* the error entries a failed syntax check leaves
SyntaxEntries(errors) == {k \in DOMAIN errors : StartsWith(errors[k], "Syntax error in ")}

\* the staged manifest is there and parses
ManifestParses(fs) == "package.json" \in DOMAIN fs /\ ~ReadJson(fs["package.json"]).threw

\* C26: in the JavaScript-family check with no I/O failure every .js, .jsx,
\* .ts or .tsx file is syntax-checked on its own: each failing file has its
\* error entry naming it, and k failing files give k such entries.
C26_EachSourceChecked ==
  (vPc = "returned" /\ vStack \in JsFamilyStacks /\ vFault = "none") =>
    LET fs == Materialize(vFiles)
    IN  /\ \A p \in FailingSources(fs) :
             InList(Val(vResult).errors, "Syntax error in " \o Basename(p) \o ": SyntaxError")
        /\ Cardinality(SyntaxEntries(Val(vResult).errors)) = Cardinality(FailingSources(fs))

\* the errors the JavaScript-family check records for a subtree on its own
SubtreeErrors(fs, dir, fault) ==
  IF PathExists(fs, dir) THEN validateJavaScript(fs, dir, EmptyResult, fault).errors ELSE << >>

\* the error recorded for a missing subtree
MissingError(fs, dir) ==
  IF PathExists(fs, dir) THEN << >>
  ELSE << "Missing " \o dir \o " directory for full-stack project" >>

\* C27: for stack node-react-fullstack the errors of the stack-specific check
\* are one error for each missing subtree, followed by what the
\* JavaScript-family check records for the frontend subtree on its own and
\* then for the backend subtree on its own, each whenever it exists.
C27_SubtreesIndependent ==
  (/\ vPc = "returned" /\ vStack = "node-react-fullstack"
   /\ vFault \in {"none", "stackReaddir", "scanReaddir"}) =>
    LET fs == Materialize(vFiles)
    IN  Val(vResult).errors =
             MissingError(fs, "frontend") \o MissingError(fs, "backend")
          \o SubtreeErrors(fs, "frontend", vFault) \o SubtreeErrors(fs, "backend", vFault)

\* the frontend subtree is missing and the backend's broken file is reported
C27_Witness ==
  /\ vPc = "returned" /\ vStack = "node-react-fullstack" /\ vFault = "none"
  /\ ~PathExists(Materialize(vFiles), "frontend")
  /\ Val(vResult).errors = << "Missing frontend directory for full-stack project",
                              "Syntax error in server.js: SyntaxError" >>

\* seq is an initial part of whole
IsPrefix(seq, whole) == Len(seq) <= Len(whole) /\ SubSeq(whole, 1, Len(seq)) = seq

\* the call is a deploy-mode delivery
Deploying == deliveryCall.pc # "idle" /\ deliveryCall.mode = "deploy"

\* C28: in deploy mode the steps run in the order create directory, write
\* files, write build descriptor, build image, create and start container; a
\* deploymentUrl is returned only after the container start succeeded; when a
\* step fails no later step runs and the call fails with 'Deployment failed'
\* and without a result.
C28_DeployStepsInOrder ==
  /\ [](Deploying =>
         LET order == << "ensureDir", "writeFiles", "writeDockerfile", "buildImage",
                         "createContainer", "startContainer" >>
             d == deliveryCall
         IN  /\ IsPrefix(d.steps, order)
             /\ d.result.deploymentUrl # NULL => (d.pc = "resolved" /\ d.steps = order)
             /\ d.pc = "resolved" => (~d.threw /\ d.result.deploymentUrl # NULL)
             /\ d.pc = "rejected" =>
                  /\ d.threw /\ d.message = "Deployment failed"
                  /\ d.result = NoDelivery
                  /\ order[Len(d.steps) + 1] = d.failure)
  /\ [][(Deploying /\ deliveryCall.pc = "rejected") => deliveryCall' = deliveryCall]_vars

\* the image build failed after the files and the build descriptor were written
C28_Witness ==
  /\ Deploying
  /\ deliveryCall.pc = "rejected"
  /\ deliveryCall.files # << >>
  /\ deliveryCall.failure = "buildImage"
  /\ deliveryCall.steps = << "ensureDir", "writeFiles", "writeDockerfile" >>
  /\ deliveryCall.message = "Deployment failed"

\* the call is a download-mode delivery
Downloading == deliveryCall.pc # "idle" /\ deliveryCall.mode = "download"

\* C29: in download mode the result (downloadUrl and commit hash) reaches the
\* caller only after the output stream emitted close, and close is emitted
\* only after every file entry, README.md and install.sh were appended, the
\* archive was finalized and every entry was written out.
C29_ResultOnlyAfterClose ==
  Downloading =>
    LET d == deliveryCall
    IN  /\ d.result # NoDelivery => d.pc = "resolved"
        /\ d.pc = "resolved" =>
             /\ d.closed
             /\ d.result.downloadUrl # NULL /\ d.result.gitCommitHash # NULL
        /\ d.closed =>
             /\ d.finalized
             /\ EntryNames(d) = Filenames(d.files) \o << "README.md", "install.sh" >>
             /\ d.written = Len(d.entries)

\* a download of two files was delivered after its stream closed
C29_Witness ==
  /\ Downloaded
  /\ Len(deliveryCall.files) = 2
  /\ deliveryCall.closed
  /\ deliveryCall.written = 4
  /\ deliveryCall.result.downloadUrl # NULL

\* the promise of the call is settled
Settled == deliveryCall.pc \in {"resolved", "rejected"}

\* the call was rejected with the delivery error of download mode
RejectedAsDeliveryError ==
  deliveryCall.pc = "rejected" /\ deliveryCall.message = "Download creation failed"

\* C30: every download-mode delivery eventually settles, a rejected one always
\* carries 'Download creation failed', and after a failure of the archiver or
\* of the output file stream the call is rejected with that error.
C30_DownloadSettlesWithDeliveryError ==
  /\ []((Downloading /\ deliveryCall.pc = "rejected") => RejectedAsDeliveryError)
  /\ Downloading ~> Settled
  /\ (Downloading /\ deliveryCall.failure \in {"archive", "output"}) ~> RejectedAsDeliveryError

\* why a provider call fails, if it does: the three causes the callers of
\* generateCode are to tell apart
FailureCause(hasOpenai, hasGemini, reply) ==
  IF ~hasOpenai /\ ~hasGemini THEN "NoProviderConfigured"
  ELSE IF reply.kind = "error" THEN "BackendFailure"
  ELSE IF reply.text = NULL \/ reply.text = "" THEN "EmptyResponse"
  ELSE "none"

\* C31: a failed LLMService.generateCode reports its cause: the error it
\* throws differs from the error it throws, for the same stack, whenever the
\* cause is another one of no backend configured, no usable content, and
\* backend transport/API failure.
C31_CausesDistinguishable ==
  (llmCall.pc = "returned" /\ llmCall.threw) =>
    \A hasOpenai \in BOOLEAN, hasGemini \in BOOLEAN, reply \in BackendReplies :
      LET other == llmGenerateCode(hasOpenai, hasGemini, llmCall.stack, reply)
      IN  (/\ other.threw
           /\ FailureCause(hasOpenai, hasGemini, reply)
                # FailureCause(llmCall.openai, llmCall.gemini, llmCall.reply))
          => other.message # llmCall.message

\* the records that a step creates or changes
Written == {id \in DOMAIN db' : id \notin DOMAIN db \/ db'[id] # db[id]}

\* C32: with concurrent generateCode invocations, no two invocations hold the
\* same record, and every step that creates or changes a record is a step of
\* the invocation holding that record, which holds it from its creation on.
C32_OwnRecordOnly ==
  /\ [](\A i, j \in Invocations :
          (i # j /\ generation[i] # NULL) => generation[i] # generation[j])
  /\ [][\A id \in Written :
          \E i \in Invocations :
            /\ pc'[i] # pc[i]
            /\ generation'[i] = id
            /\ generation[i] = NULL <=> id \notin DOMAIN db]_vars

\* one invocation completed its record while another one's is still generating
C32_Witness ==
  \E i, j \in Invocations :
    /\ generation[i] # NULL /\ Record(i).status = "completed"
    /\ generation[j] # NULL /\ Record(j).status = "generating"
    /\ pc[j] \in {"created", "generated", "deploy"}

\* the file list holds a file below the directory
HasSubtree(files, dir) == \E k \in DOMAIN files : StartsWith(files[k].filename, dir \o "/")

\* C33: the files the provider stage hands on are the single file named by the
\* stack's default filename; for a JavaScript-family stack they hold no
\* package.json, for node-react-fullstack no frontend or backend subtree, and
\* the validation result of every such invocation has a non-empty errors list.
C33_GeneratedSetAlwaysHasErrors ==
  \A i \in Invocations :
    generationResult[i] # None =>
      LET files == Val(generationResult[i]).files
          stack == request[i].stack
      IN  /\ Len(files) = 1
          /\ files[1].filename = getDefaultFilename(stack)
          /\ stack \in JsFamilyStacks => ~HasManifest(files)
          /\ stack = "node-react-fullstack" =>
               ~HasSubtree(files, "frontend") /\ ~HasSubtree(files, "backend")
          /\ (/\ validationResult[i] # None
              /\ stack \in JsFamilyStacks \cup {"node-react-fullstack"})
             => Val(validationResult[i]).errors # << >>

\* a full-stack invocation was validated with both subtrees reported missing
C33_Witness ==
  \E i \in Invocations :
    /\ validationResult[i] # None
    /\ request[i].stack = "node-react-fullstack"
    /\ Val(generationResult[i]).files[1].filename = "package.json"
    /\ Val(validationResult[i]).errors =
         << "Missing frontend directory for full-stack project",
            "Missing backend directory for full-stack project" >>

\* C34: every generateCode invocation sends exactly one HTTP response: never
\* two, one when it has ended, and every invocation that was started
\* eventually sends its response.
C34_ExactlyOneResponse ==
  /\ [](\A i \in Invocations :
          /\ Len(responses[i]) <= 1
          /\ pc[i] = "done" => Len(responses[i]) = 1)
  /\ \A i \in Invocations : (pc[i] # "idle") ~> (Len(responses[i]) = 1)

\* deploymentService.deploy returned a result to invocation i
DeployReturned(i) ==
  /\ pc[i] \in {"complete_update", "respond_created", "done"}
  /\ \E k \in DOMAIN calls[i] :
       calls[i][k].service = "deploymentService.deploy" /\ ~calls[i][k].threw

\* C35: when deploymentService.deploy has returned successfully for an
\* invocation, the invocation ends with its record in status completed and
\* carrying the URL of its delivery mode, also when the final record update
\* fails.
C35_DeliveredMeansCompleted ==
  \A i \in Invocations :
    (pc[i] = "done" /\ DeployReturned(i)) =>
      /\ Record(i).status = "completed"
      /\ Record(i)[ModeField(request[i].output)] # NULL


\* ---------------------------------------------------------------- C36
\* a collaborator was put on the list by a finished share-project event that
\* named it and came from a socket of the project's owner
AddedByOwner(user) ==
  \E h \in Shares :
    /\ collab.shares[h].pc = "shared"
    /\ collab.shares[h].target = user
    /\ collab.sockets[collab.shares[h].socket].user = ProjectOwner

\* C36: after any interleaving of share-project events the collaborators list
\* of the project holds each user at most once, and every user on it was added
\* by a share-project event of the project's owner.
C36_CollaboratorsOnceByOwner ==
  collab.pc = "serving" =>
    /\ NoRepeat(collab.collaborators)
    /\ \A k \in DOMAIN collab.collaborators : AddedByOwner(collab.collaborators[k])

\* ---------------------------------------------------------------- C37
\* C37: the user-left events broadcast for a socket never outnumber its
\* successful join-project events, its disconnect included.
C37_OneUserLeftPerJoin ==
  collab.pc = "serving" =>
    \A s \in Sockets : collab.sockets[s].userLeft <= collab.sockets[s].joined


\* ---------------------------------------------------------------- C38
\* C38: a password reset token is accepted at most once: no token appears
\* twice among the tokens of the successful resetPassword calls, whatever
\* forgotPassword calls lie between them.
C38_TokenUsableOnce ==
  auth.pc = "serving" => NoRepeat(auth.succeeded)

====
